---------------------------- MODULE Spec2Model ----------------------------
(***************************************************************************)
(* Model of the NYC sky colours service (src/server.js and the variants    *)
(* in src/unnamed/part_000): the single-flight update coordinator, the     *)
(* date/time-slot snapshot store kept under data/, and the query           *)
(* handlers that read it.                                                  *)
(*                                                                         *)
(* Strings that the code inspects character by character (directory and    *)
(* file names, the date and time query parameters) are sequences of        *)
(* one-character strings.  Instants are whole seconds since the Unix       *)
(* epoch (every instant the code computes from a key is a whole second).   *)
(***************************************************************************)
EXTENDS Integers, Sequences, FiniteSets, TLC

VARIABLES
    updateInProgress,  \* server.js:15, the module-level guard
    runs,              \* updateCacheFiles invocations suspended at an await: id -> pc
    store,             \* the data/ directory tree: entry name -> entry
    now,               \* the wall clock (seconds since the epoch)
    ticks,             \* number of clock advances so far
    env,               \* the build/host: process time zone and hour-cycle of hour12:false
    resp,              \* the outcome of the handler or run step that acted last
    nReq,              \* triggers handled so far
    n200,              \* /update-cache requests answered 200
    nStarted           \* update runs started so far

vars == <<updateInProgress, runs, store, now, ticks, env, resp, nReq, n200, nStarted>>

----------------------------------------------------------------------------
(* Bounds of the model *)

MaxRequests == 2
MaxTicks == 1

----------------------------------------------------------------------------
(* Characters and strings *)

DigitChars == <<"0", "1", "2", "3", "4", "5", "6", "7", "8", "9">>

IsDigit(c) == \E i \in 1..10 : DigitChars[i] = c

DigitVal(c) == (CHOOSE i \in 1..10 : DigitChars[i] = c) - 1

\* Collation rank of the characters that occur in names.  For the names the
\* code sorts (all of one shape: digits with '-' and ".json" at fixed
\* positions) localeCompare orders by the digits, as this rank does.
CharRank(c) ==
    IF c = "-" THEN 1
    ELSE IF c = "." THEN 2
    ELSE IF IsDigit(c) THEN 10 + DigitVal(c)
    ELSE 30

\* a.localeCompare(b) < 0
StrLess(a, b) ==
    \E i \in 1..(Len(a) + 1) :
        /\ i <= Len(b)
        /\ \A j \in 1..(i - 1) : a[j] = b[j]
        /\ \/ i = Len(a) + 1
           \/ i <= Len(a) /\ CharRank(a[i]) < CharRank(b[i])

\* String(n).padStart(2, "0") and the "2-digit" fields of toLocale...String
Pad2(n) == <<DigitChars[(n \div 10) + 1], DigitChars[(n % 10) + 1]>>

Pad4(n) ==
    <<DigitChars[((n \div 1000) % 10) + 1], DigitChars[((n \div 100) % 10) + 1],
      DigitChars[((n \div 10) % 10) + 1], DigitChars[(n % 10) + 1]>>

\* Number("..") of a string of digits
RECURSIVE ToNumber(_)
ToNumber(s) ==
    IF s = <<>> THEN 0
    ELSE 10 * ToNumber(SubSeq(s, 1, Len(s) - 1)) + DigitVal(s[Len(s)])

DotJson == <<".", "j", "s", "o", "n">>

\* /^\d{4}-\d{2}-\d{2}$/.test(s)
IsDateName(s) ==
    /\ Len(s) = 10
    /\ \A i \in {1, 2, 3, 4, 6, 7, 9, 10} : IsDigit(s[i])
    /\ s[5] = "-"
    /\ s[8] = "-"

\* file.endsWith(".json") && /^\d{2}-\d{2}\.json$/.test(file)
IsTimeFile(s) ==
    /\ Len(s) = 10
    /\ \A i \in {1, 2, 4, 5} : IsDigit(s[i])
    /\ s[3] = "-"
    /\ SubSeq(s, 6, 10) = DotJson

\* /^\d{1,2}:\d{2}$/.test(s)
IsTimeParam(s) ==
    \/ /\ Len(s) = 4
       /\ IsDigit(s[1]) /\ s[2] = ":" /\ IsDigit(s[3]) /\ IsDigit(s[4])
    \/ /\ Len(s) = 5
       /\ IsDigit(s[1]) /\ IsDigit(s[2]) /\ s[3] = ":"
       /\ IsDigit(s[4]) /\ IsDigit(s[5])

----------------------------------------------------------------------------
(* Calendar and time zones *)

\* Days from 1970-01-01 to the civil date y-m-d (proleptic Gregorian), m in
\* 1..12; days outside the month roll over as Date.UTC does.
DaysFromCivil(y, m, d) ==
    LET yy  == IF m <= 2 THEN y - 1 ELSE y
        era == yy \div 400
        yoe == yy - era * 400
        mp  == (m + 9) % 12
        doy == (153 * mp + 2) \div 5 + d - 1
        doe == yoe * 365 + yoe \div 4 - yoe \div 100 + doy
    IN  era * 146097 + doe - 719468

\* Date.UTC(year, month - 1, day, hour, minute, 0) / 1000
DateUTC(y, m, d, h, mi) == DaysFromCivil(y, m, d) * 86400 + h * 3600 + mi * 60

\* The model keeps every instant inside 2025: the days before each month of
\* that year, and the civil date [y, m, d] of a day number of that year.
DaysBeforeMonth == <<0, 31, 59, 90, 120, 151, 181, 212, 243, 273, 304, 334, 365>>

MonthOfDay(doy) ==
    CHOOSE m \in 1..12 : DaysBeforeMonth[m] <= doy /\ doy < DaysBeforeMonth[m + 1]

DateInMonth(doy, m) == [y |-> 2025, m |-> m, d |-> doy - DaysBeforeMonth[m] + 1]

DateOfDayOfYear(doy) == DateInMonth(doy, MonthOfDay(doy))

CivilFromDays(z) == DateOfDayOfYear(z - DaysFromCivil(2025, 1, 1))

\* America/New_York in 2025: daylight time from 2025-03-09 07:00Z until
\* 2025-11-02 06:00Z.
DstStart == DateUTC(2025, 3, 9, 7, 0)
DstEnd == DateUTC(2025, 11, 2, 6, 0)

NycUtcOffset(t) == IF DstStart <= t /\ t < DstEnd THEN -14400 ELSE -18000

\* The fields of an instant formatted with timeZone "America/New_York"
CivilFields(cd, sod) ==
    [y |-> cd.y, m |-> cd.m, d |-> cd.d,
     h |-> sod \div 3600, mi |-> (sod % 3600) \div 60, s |-> sod % 60]

LocalFields(loc) == CivilFields(CivilFromDays(loc \div 86400), loc % 86400)

NycCivil(t) == LocalFields(t + NycUtcOffset(t))


\* new Date(year, month - 1, day): midnight of the date in the zone of the
\* process, env.tz being that zone's offset from UTC in seconds.
LocalMidnight(y, m, d) == DateUTC(y, m, d, 0, 0) - env.tz

\* new Date(date.toLocaleString("en-US", {timeZone: zone})): the civil fields
\* of instant t in a zone of offset zoneOffset, read back as local time.
ParseLocal(t, zoneOffset) == (t + zoneOffset) - env.tz

\* nycOffset of the read paths: the difference of the test date formatted in
\* UTC and in America/New_York.
OffsetAt(testDate) ==
    ParseLocal(testDate, 0) - ParseLocal(testDate, NycUtcOffset(testDate))

\* The offset in force at the moment of the call
NycOffsetNow(y, m, d) == OffsetAt(now)

NycOffsetForDate(y, m, d) == OffsetAt(LocalMidnight(y, m, d))

\* timestamp of a snapshot from its date folder "YYYY-MM-DD" and its time
\* "HH:MM": utcDate.getTime() + nycOffset
TimestampOf(year, month, day, hour, minute) ==
    DateUTC(year, month, day, hour, minute) + NycOffsetForDate(year, month, day)

KeyTimestamp(dateStr, timeStr) ==
    TimestampOf(ToNumber(SubSeq(dateStr, 1, 4)), ToNumber(SubSeq(dateStr, 6, 7)),
                ToNumber(SubSeq(dateStr, 9, 10)),
                ToNumber(SubSeq(timeStr, 1, 2)), ToNumber(SubSeq(timeStr, 4, 5)))

\* now.toLocaleDateString("en-US", {timeZone: NY, year: "numeric",
\* month: "2-digit", day: "2-digit"}): "MM/DD/YYYY"
FormatDate(c) == Pad2(c.m) \o <<"/">> \o Pad2(c.d) \o <<"/">> \o Pad4(c.y)

FormatNycDate(t) == FormatDate(NycCivil(t))

\* now.toLocaleTimeString("en-US", {timeZone: NY, hour: "2-digit",
\* minute: "2-digit", hour12: false}): "HH:MM".  Builds whose hour12:false
\* resolves to the h24 hour cycle print the hour after midnight as 24.
FormatTime(c) ==
    Pad2(IF env.hourCycle = "h24" /\ c.h = 0 THEN 24 ELSE c.h) \o <<":">> \o Pad2(c.mi)

FormatNycTime(t) == FormatTime(NycCivil(t))

\* s.replace(from, to): the first occurrence of the character only
ReplaceFirst(s, from, to) ==
    IF \E i \in 1..Len(s) : s[i] = from
    THEN LET k == CHOOSE i \in 1..Len(s) :
                      s[i] = from /\ \A j \in 1..(i - 1) : s[j] # from
         IN  [i \in 1..Len(s) |-> IF i = k THEN to ELSE s[i]]
    ELSE s

\* const [month, day, year] = nycDate.split("/"); `${year}-${month}-${day}`
DateFolderFrom(nycDate) ==
    SubSeq(nycDate, 7, 10) \o <<"-">> \o SubSeq(nycDate, 1, 2) \o <<"-">>
        \o SubSeq(nycDate, 4, 5)

DateFolderOf(t) == DateFolderFrom(FormatNycDate(t))

\* nycTime.replace(":", "-") + ".json"
TimeFilenameOf(t) == ReplaceFirst(FormatNycTime(t), ":", "-") \o DotJson

----------------------------------------------------------------------------
(* The snapshot store: the entries of data/ *)

Regions == {"west", "north-west", "north-east", "east"}

\* The colour objects the pipeline can return (the two of the spec's scenario)
ColorA == [r \in Regions |-> "#112233"]
ColorB == [r \in Regions |-> "#445566"]
Colors == {ColorA, ColorB}

NoColors == <<>>
NoFiles == <<>>
NoIntervals == <<>>

\* A file holding JSON.stringify(colorData), and a file whose read or parse throws
JsonFile(c) == [kind |-> "json", colors |-> c]
BadFile == [kind |-> "bad", colors |-> NoColors]

Dir(files) == [isDir |-> TRUE, files |-> files]
PlainFile == [isDir |-> FALSE, files |-> NoFiles]

\* fs.existsSync(path.join(dataDir, name))
ExistsEntry(st, name) == name \in DOMAIN st

\* fs.existsSync(path.join(dataDir, dir, file))
ExistsFile(st, dir, file) ==
    /\ dir \in DOMAIN st
    /\ st[dir].isDir
    /\ file \in DOMAIN st[dir].files

\* fs.mkdirSync(dateFolderPath, {recursive: true}) when the path is absent
MkDir(st, dir) ==
    IF dir \in DOMAIN st THEN st
    ELSE [n \in DOMAIN st \cup {dir} |-> IF n = dir THEN Dir(NoFiles) ELSE st[n]]

\* fs.writeFileSync(filePath, content) in an existing directory
PutFileKeepExisting(st, dir, file, content) ==
    [st EXCEPT ![dir] =
        Dir([f \in DOMAIN st[dir].files \cup {file} |->
                IF f \in DOMAIN st[dir].files THEN st[dir].files[f] ELSE content])]

\* A write that leaves the file alone in its directory
PutFileAlone(st, dir, file, content) ==
    [st EXCEPT ![dir] = Dir([f \in {file} |-> content])]

PutFile(st, dir, file, content) ==
    [st EXCEPT ![dir] =
        Dir([f \in DOMAIN st[dir].files \cup {file} |->
                IF f = file THEN content ELSE st[dir].files[f]])]


----------------------------------------------------------------------------
(* Reading the store *)

\* names.sort((a, b) => b.localeCompare(a)) of an array without duplicates
RECURSIVE SortDesc(_)
SortDesc(S) ==
    IF S = {} THEN <<>>
    ELSE LET top == CHOOSE a \in S : \A b \in S \ {a} : StrLess(b, a)
         IN  <<top>> \o SortDesc(S \ {top})

\* names.sort((a, b) => a.localeCompare(b))
RECURSIVE SortAsc(_)
SortAsc(S) ==
    IF S = {} THEN <<>>
    ELSE LET low == CHOOSE a \in S : \A b \in S \ {a} : StrLess(a, b)
         IN  <<low>> \o SortAsc(S \ {low})

\* readdirSync(dataDir) filtered to the directories named YYYY-MM-DD
DateFolders(st) == {n \in DOMAIN st : st[n].isDir /\ IsDateName(n)}

\* readdirSync(dateFolderPath) filtered to the files named HH-MM.json
TimeFiles(st, dir) == {f \in DOMAIN st[dir].files : IsTimeFile(f)}

\* timeFile.replace(".json", "").replace("-", ":")
TimeStrOf(timeFile) == ReplaceFirst(SubSeq(timeFile, 1, Len(timeFile) - 5), "-", ":")

NotFound == [found |-> FALSE, colors |-> NoColors, timestamp |-> 0]

Snapshot(colors, timestamp) == [found |-> TRUE, colors |-> colors, timestamp |-> timestamp]

\* The loop of getLatestColorData over the sorted date folders; a read or a
\* parse that throws is caught by the function and makes it return null.
RECURSIVE LatestIn(_, _)
LatestIn(st, dateFolders) ==
    IF dateFolders = <<>> THEN NotFound
    ELSE LET dateFolder == Head(dateFolders)
             timeFiles  == SortDesc(TimeFiles(st, dateFolder))
         IN  IF Len(timeFiles) > 0
             THEN LET latestTimeFile == timeFiles[1]
                      file           == st[dateFolder].files[latestTimeFile]
                  IN  IF file.kind = "json"
                      THEN Snapshot(file.colors,
                                    KeyTimestamp(dateFolder, TimeStrOf(latestTimeFile)))
                      ELSE NotFound
             ELSE LatestIn(st, Tail(dateFolders))

getLatestColorDataOldest(st) ==
    LET dateFolders == SortAsc(DateFolders(st))
    IN  IF Len(dateFolders) = 0 THEN NotFound ELSE LatestIn(st, dateFolders)

getLatestColorDataNoSkip(st) ==
    LET dateFolders == SortDesc(DateFolders(st))
    IN  IF Len(dateFolders) = 0 THEN NotFound
        ELSE LatestIn(st, <<dateFolders[1]>>)

getLatestColorData(st) ==
    LET dateFolders == SortDesc(DateFolders(st))
    IN  IF Len(dateFolders) = 0 THEN NotFound ELSE LatestIn(st, dateFolders)

Thrown(msg) == [ok |-> FALSE, msg |-> msg, colors |-> NoColors, timestamp |-> 0]

Returned(colors, timestamp) ==
    [ok |-> TRUE, msg |-> "", colors |-> colors, timestamp |-> timestamp]

NormalizeTimeUnpadded(timeStr) == timeStr

\* timeParts[0].padStart(2, "0") + ":" + timeParts[1] of a string that
\* passed the time pattern
NormalizeTime(timeStr) == IF Len(timeStr) = 4 THEN <<"0">> \o timeStr ELSE timeStr

getColorDataForDateTimeLooksFirst(st, dateStr, timeStr) ==
    IF ~IsDateName(dateStr) THEN Thrown("Invalid date format")
    ELSE IF ~ExistsEntry(st, dateStr) THEN Thrown("No data available for date")
    ELSE IF ~IsTimeParam(timeStr) THEN Thrown("Invalid time format")
    ELSE LET normalizedTimeStr == NormalizeTime(timeStr)
             timeFilename      == ReplaceFirst(normalizedTimeStr, ":", "-") \o DotJson
         IN  IF ~ExistsFile(st, dateStr, timeFilename)
             THEN Thrown("No data available for date at time")
             ELSE LET file == st[dateStr].files[timeFilename]
                  IN  IF file.kind # "json" THEN Thrown("read or parse error")
                      ELSE Returned(file.colors,
                                    KeyTimestamp(dateStr, normalizedTimeStr))

getColorDataForDateTimeTimeFirst(st, dateStr, timeStr) ==
    IF ~IsTimeParam(timeStr) THEN Thrown("Invalid time format")
    ELSE IF ~IsDateName(dateStr) THEN Thrown("Invalid date format")
    ELSE LET normalizedTimeStr == NormalizeTime(timeStr)
             timeFilename      == ReplaceFirst(normalizedTimeStr, ":", "-") \o DotJson
         IN  IF ~ExistsEntry(st, dateStr) THEN Thrown("No data available for date")
             ELSE IF ~ExistsFile(st, dateStr, timeFilename)
                  THEN Thrown("No data available for date at time")
             ELSE LET file == st[dateStr].files[timeFilename]
                  IN  IF file.kind # "json" THEN Thrown("read or parse error")
                      ELSE Returned(file.colors,
                                    KeyTimestamp(dateStr, normalizedTimeStr))

\* getColorDataForDateTime: the value returned, or the message of the
\* error thrown
getColorDataForDateTime(st, dateStr, timeStr) ==
    IF ~IsDateName(dateStr) THEN Thrown("Invalid date format")
    ELSE IF ~IsTimeParam(timeStr) THEN Thrown("Invalid time format")
    ELSE LET normalizedTimeStr == NormalizeTime(timeStr)
             timeFilename      == ReplaceFirst(normalizedTimeStr, ":", "-") \o DotJson
         IN  IF ~ExistsEntry(st, dateStr) THEN Thrown("No data available for date")
             ELSE IF ~ExistsFile(st, dateStr, timeFilename)
                  THEN Thrown("No data available for date at time")
             ELSE LET file == st[dateStr].files[timeFilename]
                  IN  IF file.kind # "json" THEN Thrown("read or parse error")
                      ELSE Returned(file.colors,
                                    KeyTimestamp(dateStr, normalizedTimeStr))

ThrownList(msg) == [ok |-> FALSE, msg |-> msg, intervals |-> NoIntervals]

ReturnedList(list) == [ok |-> TRUE, msg |-> "", intervals |-> list]

\* The entries getAllColorDataForDate pushes for the sorted time files
RECURSIVE IntervalsOf(_, _, _)
IntervalsOf(st, dateStr, timeFiles) ==
    IF timeFiles = <<>> THEN <<>>
    ELSE LET timeFile == Head(timeFiles)
             timeStr  == TimeStrOf(timeFile)
         IN  <<[time      |-> timeStr,
                colors    |-> st[dateStr].files[timeFile].colors,
                timestamp |-> KeyTimestamp(dateStr, timeStr)]>>
             \o IntervalsOf(st, dateStr, Tail(timeFiles))

\* getAllColorDataForDate (part_000): the list returned, or the message of
\* the error thrown
getAllColorDataForDateDescending(st, dateStr) ==
    IF ~IsDateName(dateStr) THEN ThrownList("Invalid date format")
    ELSE IF ~ExistsEntry(st, dateStr) THEN ThrownList("No data available for date")
    ELSE IF ~st[dateStr].isDir THEN ThrownList("read or parse error")
    ELSE LET timeFiles == SortDesc(TimeFiles(st, dateStr))
         IN  IF Len(timeFiles) = 0 THEN ThrownList("No color data files found for date")
             ELSE IF \E f \in TimeFiles(st, dateStr) : st[dateStr].files[f].kind # "json"
                  THEN ThrownList("read or parse error")
             ELSE ReturnedList(IntervalsOf(st, dateStr, timeFiles))

getAllColorDataForDateOneMessage(st, dateStr) ==
    IF ~IsDateName(dateStr) THEN ThrownList("Invalid date format")
    ELSE IF ~ExistsEntry(st, dateStr) THEN ThrownList("No data available for date")
    ELSE IF ~st[dateStr].isDir THEN ThrownList("read or parse error")
    ELSE LET timeFiles == SortAsc(TimeFiles(st, dateStr))
         IN  IF Len(timeFiles) = 0 THEN ThrownList("No data available for date")
             ELSE IF \E f \in TimeFiles(st, dateStr) : st[dateStr].files[f].kind # "json"
                  THEN ThrownList("read or parse error")
             ELSE ReturnedList(IntervalsOf(st, dateStr, timeFiles))

getAllColorDataForDate(st, dateStr) ==
    IF ~IsDateName(dateStr) THEN ThrownList("Invalid date format")
    ELSE IF ~ExistsEntry(st, dateStr) THEN ThrownList("No data available for date")
    ELSE IF ~st[dateStr].isDir THEN ThrownList("read or parse error")
    ELSE LET timeFiles == SortAsc(TimeFiles(st, dateStr))
         IN  IF Len(timeFiles) = 0 THEN ThrownList("No color data files found for date")
             ELSE IF \E f \in TimeFiles(st, dateStr) : st[dateStr].files[f].kind # "json"
                  THEN ThrownList("read or parse error")
             ELSE ReturnedList(IntervalsOf(st, dateStr, timeFiles))

----------------------------------------------------------------------------
(* Outcomes recorded in resp *)

NoQuery == [date |-> <<>>, time |-> <<>>]

\* A property the response does not have
Absent == <<>>

\* The store functions a handler called, in order (none)
NoReads == <<>>

Outcome(op, status, msg, colors, timestamp, intervals) ==
    [op |-> op, query |-> NoQuery, status |-> status, msg |-> msg,
     colors |-> colors, timestamp |-> timestamp, intervals |-> intervals,
     totalIntervals |-> 0, daysIncluded |-> 0, isHistoricalData |-> FALSE,
     availableDates |-> <<>>, totalDates |-> 0,
     latestDate |-> Absent, oldestDate |-> Absent,
     cacheAge |-> Absent, nextUpdate |-> Absent, reads |-> NoReads]

\* A response or run outcome that carries no snapshot
Plain(op, status, msg) == Outcome(op, status, msg, NoColors, 0, NoIntervals)

----------------------------------------------------------------------------
(* The update coordinator: updateCacheFiles and GET /update-cache *)

\* The awaits of updateCacheFiles in order: the two of getFrameData (yt-dlp,
\* ffmpeg), yt-dlp again, ffprobe, the four crops, the four colours.
PipelineSteps == <<"frameUrl", "frameGrab", "videoUrl", "ffprobe", "crops", "colors">>

StepIndex(pc) == CHOOSE i \in 1..Len(PipelineSteps) : PipelineSteps[i] = pc

Without(f, id) == [i \in DOMAIN f \ {id} |-> f[i]]

With(f, id, v) == [i \in DOMAIN f \cup {id} |-> IF i = id THEN v ELSE f[i]]

\* updateCacheFiles up to its first await: the guard, the set, and the call
\* of getFrameData that suspends at yt-dlp.
UpdateCacheFilesCallNoGuard ==
    /\ updateInProgress' = TRUE
    /\ runs' = With(runs, nStarted + 1, PipelineSteps[1])
    /\ nStarted' = nStarted + 1

UpdateCacheFilesCall ==
    IF updateInProgress
    THEN UNCHANGED <<updateInProgress, runs, nStarted>>
    ELSE /\ updateInProgress' = TRUE
         /\ runs' = With(runs, nStarted + 1, PipelineSteps[1])
         /\ nStarted' = nStarted + 1

\* finally { updateInProgress = false }, the run is over
FinallyKeepsFlag(id) ==
    /\ updateInProgress' = updateInProgress
    /\ runs' = Without(runs, id)

Finally(id) ==
    /\ updateInProgress' = FALSE
    /\ runs' = Without(runs, id)

\* GET /update-cache
UpdateCacheRouteResetsFlag ==
    /\ nReq < MaxRequests
    /\ nReq' = nReq + 1
    /\ IF updateInProgress
       THEN /\ resp' = Plain("update-cache", 429, "Update already in progress")
            /\ updateInProgress' = FALSE
            /\ UNCHANGED <<runs, nStarted, n200>>
       ELSE /\ UpdateCacheFilesCall
            /\ resp' = Plain("update-cache", 200, "processing")
            /\ n200' = n200 + 1
    /\ UNCHANGED <<store, now, ticks, env>>

UpdateCacheRouteRunsAnyway ==
    /\ nReq < MaxRequests
    /\ nReq' = nReq + 1
    /\ IF updateInProgress
       THEN /\ resp' = Plain("update-cache", 429, "Update already in progress")
            /\ UpdateCacheFilesCallNoGuard
            /\ UNCHANGED n200
       ELSE /\ UpdateCacheFilesCall
            /\ resp' = Plain("update-cache", 200, "processing")
            /\ n200' = n200 + 1
    /\ UNCHANGED <<store, now, ticks, env>>

UpdateCacheRouteInverted ==
    /\ nReq < MaxRequests
    /\ nReq' = nReq + 1
    /\ IF updateInProgress
       THEN /\ resp' = Plain("update-cache", 200, "processing")
            /\ UNCHANGED <<updateInProgress, runs, nStarted>>
            /\ n200' = n200 + 1
       ELSE /\ UpdateCacheFilesCall
            /\ resp' = Plain("update-cache", 429, "Update already in progress")
            /\ UNCHANGED n200
    /\ UNCHANGED <<store, now, ticks, env>>

\* A handler that suspends between its check and its call: the call can find
\* the flag set by then and be skipped
UpdateCacheRouteTwoTurns ==
    /\ nReq < MaxRequests
    /\ nReq' = nReq + 1
    /\ IF updateInProgress
       THEN /\ resp' = Plain("update-cache", 429, "Update already in progress")
            /\ UNCHANGED <<updateInProgress, runs, nStarted, n200>>
       ELSE /\ \/ UpdateCacheFilesCall
               \/ UNCHANGED <<updateInProgress, runs, nStarted>>
            /\ resp' = Plain("update-cache", 200, "processing")
            /\ n200' = n200 + 1
    /\ UNCHANGED <<store, now, ticks, env>>

UpdateCacheRoute ==
    /\ nReq < MaxRequests
    /\ nReq' = nReq + 1
    /\ IF updateInProgress
       THEN /\ resp' = Plain("update-cache", 429, "Update already in progress")
            /\ UNCHANGED <<updateInProgress, runs, nStarted, n200>>
       ELSE /\ UpdateCacheFilesCall
            /\ resp' = Plain("update-cache", 200, "processing")
            /\ n200' = n200 + 1
    /\ UNCHANGED <<store, now, ticks, env>>

\* updateCacheFiles() called by anything but the route
DirectCall ==
    /\ nReq < MaxRequests
    /\ nReq' = nReq + 1
    /\ UpdateCacheFilesCall
    /\ resp' = Plain("direct", 0, IF updateInProgress THEN "skipped" ELSE "started")
    /\ UNCHANGED <<store, now, ticks, env, n200>>

\* An awaited pipeline call before the last resolves: the run moves to its
\* next await.
PipelineResolve(id) ==
    /\ id \in DOMAIN runs
    /\ StepIndex(runs[id]) < Len(PipelineSteps)
    /\ runs' = [runs EXCEPT ![id] = PipelineSteps[StepIndex(runs[id]) + 1]]
    /\ UNCHANGED <<updateInProgress, store, now, ticks, env, resp, nReq, n200, nStarted>>

\* An awaited pipeline call rejects, or what follows it up to the next await
\* throws (JSON.parse of the ffprobe output, a missing video stream): catch,
\* rethrow, finally.
PipelineRejectMakesDir(id) ==
    /\ id \in DOMAIN runs
    /\ resp' = Plain("run", 0, runs[id])
    /\ Finally(id)
    /\ store' = MkDir(store, DateFolderOf(now))
    /\ UNCHANGED <<now, ticks, env, nReq, n200, nStarted>>

\* A rejection that ends the run without the finally block
PipelineRejectKeepsFlag(id) ==
    /\ id \in DOMAIN runs
    /\ resp' = Plain("run", 0, runs[id])
    /\ runs' = Without(runs, id)
    /\ UNCHANGED <<updateInProgress, store, now, ticks, env, nReq, n200, nStarted>>

PipelineReject(id) ==
    /\ id \in DOMAIN runs
    /\ resp' = Plain("run", 0, runs[id])
    /\ Finally(id)
    /\ UNCHANGED <<store, now, ticks, env, nReq, n200, nStarted>>

\* The colours resolve and the run goes on, without another await, through
\* step 6 (the key from new Date(), mkdir, write) and the finally block.
WriteSnapshot(colorData, dateFolder, timeFilename) ==
    LET made == MkDir(store, dateFolder)
        key  == [date |-> dateFolder, time |-> TimeStrOf(timeFilename)]
    IN  \/ \* mkdirSync throws
           /\ ~ExistsEntry(store, dateFolder)
           /\ store' = store
           /\ resp' = Plain("run", 0, "mkdir")
        \/ \* writeFileSync throws before it has opened the file
           /\ store' = made
           /\ resp' = [Plain("run", 0, "write") EXCEPT !.query = key]
        \/ \* writeFileSync throws after it has truncated the file
           /\ made[dateFolder].isDir
           /\ store' = PutFile(made, dateFolder, timeFilename, BadFile)
           /\ resp' = [Plain("run", 0, "write") EXCEPT !.query = key]
        \/ /\ made[dateFolder].isDir
           /\ store' = PutFile(made, dateFolder, timeFilename, JsonFile(colorData))
           /\ resp' = [Outcome("run", 0, "saved", colorData, 0, NoIntervals) EXCEPT
                           !.query = key]

\* The same with an await between the creation of the date folder and the
\* write of the file (fs.promises in place of the Sync calls)
SaveSnapshotInTwoTurns(id, colorData) ==
    /\ id \in DOMAIN runs
    /\ runs[id] = "colors"
    /\ IF ~ExistsEntry(store, DateFolderOf(now))
       THEN /\ store' = MkDir(store, DateFolderOf(now))
            /\ UNCHANGED <<updateInProgress, runs, resp>>
       ELSE /\ WriteSnapshot(colorData, DateFolderOf(now), TimeFilenameOf(now))
            /\ Finally(id)
    /\ UNCHANGED <<now, ticks, env, nReq, n200, nStarted>>

SaveSnapshot(id, colorData) ==
    /\ id \in DOMAIN runs
    /\ runs[id] = "colors"
    /\ WriteSnapshot(colorData, DateFolderOf(now), TimeFilenameOf(now))
    /\ Finally(id)
    /\ UNCHANGED <<now, ticks, env, nReq, n200, nStarted>>

----------------------------------------------------------------------------
(* GET /api (part_000: with the date-only form) *)

\* The status and body the handler sends for the query parameters date and
\* time, the empty string standing for a parameter that is absent or empty.
\* config.cache.updateIntervalMinutes
UpdateIntervalMinutes == env.intervalMinutes

\* Math.ceil(currentMinutes / intervalMinutes) * intervalMinutes
NextIntervalMinute(currentMinutes) ==
    ((currentMinutes + UpdateIntervalMinutes - 1) \div UpdateIntervalMinutes)
        * UpdateIntervalMinutes

\* parseInt(hour) of toLocaleString("en-US", {timeZone: NY, ...,
\* hour: "2-digit", hour12: false})
HourField(c) == IF env.hourCycle = "h24" /\ c.h = 0 THEN 24 ELSE c.h

\* nextUpdateTime from the New York fields of now and the next interval minute
NextUpdateAt(c, currentHour, nextIntervalMinute) ==
    DateUTC(c.y, c.m, c.d,
            IF nextIntervalMinute >= 60 THEN currentHour + 1 ELSE currentHour,
            IF nextIntervalMinute >= 60 THEN 0 ELSE nextIntervalMinute)
        + NycOffsetForDate(c.y, c.m, c.d)

NextUpdateTime(c) == NextUpdateAt(c, HourField(c), NextIntervalMinute(c.mi))

\* response.metadata.nextUpdate: timestamp, Math.max(0, timeToNextUpdate)
NextUpdate(nextUpdateTime, t) ==
    [timestamp     |-> nextUpdateTime,
     timeRemaining |-> IF nextUpdateTime - t > 0 THEN nextUpdateTime - t ELSE 0]

\* The two blocks under if (!isHistoricalData) at the end of GET /api
MetadataAlways(response, t) ==
    [response EXCEPT !.cacheAge   = <<t - response.timestamp>>,
                     !.nextUpdate = <<NextUpdate(NextUpdateTime(NycCivil(t)), t)>>]

Metadata(response, t) ==
    IF ~response.isHistoricalData
    THEN [response EXCEPT !.cacheAge   = <<t - response.timestamp>>,
                          !.nextUpdate = <<NextUpdate(NextUpdateTime(NycCivil(t)), t)>>]
    ELSE response

\* The branch GET /api takes for its date and time parameters; an absent
\* and an empty parameter are both falsy (<<>>).
BranchLoneDateRejected(date, time) ==
    IF date # <<>> /\ time # <<>> THEN "exact"
    ELSE IF date # <<>> \/ time # <<>> THEN "timeOnly"
    ELSE "latest"

BranchLoneTimeIgnored(date, time) ==
    IF date # <<>> /\ time # <<>> THEN "exact"
    ELSE IF date # <<>> THEN "dateOnly"
    ELSE "latest"

Branch(date, time) ==
    IF date # <<>> /\ time # <<>> THEN "exact"
    ELSE IF date # <<>> /\ time = <<>> THEN "dateOnly"
    ELSE IF date = <<>> /\ time # <<>> THEN "timeOnly"
    ELSE "latest"

ExactResponseUncaught(st, date, time, t) ==
    LET r == getColorDataForDateTime(st, date, time)
    IN  IF r.ok
        THEN Metadata([Outcome("api", 200, "historical", r.colors, r.timestamp,
                               NoIntervals) EXCEPT
                          !.isHistoricalData = TRUE,
                          !.reads = <<"getColorDataForDateTime">>], t)
        ELSE [Plain("api", 500, r.msg) EXCEPT !.reads = <<"getColorDataForDateTime">>]

\* if (date && time): getColorDataForDateTime, a throw answered 400
ExactResponse(st, date, time, t) ==
    LET r == getColorDataForDateTime(st, date, time)
    IN  IF r.ok
        THEN Metadata([Outcome("api", 200, "historical", r.colors, r.timestamp,
                               NoIntervals) EXCEPT
                          !.isHistoricalData = TRUE,
                          !.reads = <<"getColorDataForDateTime">>], t)
        ELSE [Plain("api", 400, r.msg) EXCEPT !.reads = <<"getColorDataForDateTime">>]

\* else if (date && !time): getAllColorDataForDate, a throw answered 400
DateOnlyResponse(st, date, t) ==
    LET r == getAllColorDataForDate(st, date)
    IN  IF r.ok
        THEN Metadata([Outcome("api", 200, "date-only", NoColors, 0, r.intervals)
                          EXCEPT !.isHistoricalData = TRUE,
                                 !.totalIntervals = Len(r.intervals),
                                 !.reads = <<"getAllColorDataForDate">>], t)
        ELSE [Plain("api", 400, r.msg) EXCEPT !.reads = <<"getAllColorDataForDate">>]

\* else if (!date && time)
TimeOnlyResponse == Plain("api", 400, "Date parameter required when specifying time")

\* else: getCachedData, whose throw reaches the catch of the handler
LatestResponse(st, t) ==
    LET latestData == getLatestColorData(st)
    IN  IF latestData.found
        THEN Metadata([Outcome("api", 200, "current", latestData.colors,
                               latestData.timestamp, NoIntervals) EXCEPT
                          !.reads = <<"getLatestColorData">>], t)
        ELSE [Plain("api", 500, "No color data available") EXCEPT
                 !.reads = <<"getLatestColorData">>]

\* GET /api: the response for the date and time parameters over the store
\* at instant t
ApiResponseIn(branch, st, date, time, t) ==
    CASE branch = "exact"    -> ExactResponse(st, date, time, t)
      [] branch = "dateOnly" -> DateOnlyResponse(st, date, t)
      [] branch = "timeOnly" -> TimeOnlyResponse
      [] branch = "latest"   -> LatestResponse(st, t)

ApiResponseAt(st, date, time, t) == ApiResponseIn(Branch(date, time), st, date, time, t)

ApiResponse(st, date, time) == ApiResponseAt(st, date, time, now)

ApiRouteWaitsForRun(date, time) ==
    /\ resp' = IF updateInProgress
               THEN Plain("api", 503, "Update in progress")
               ELSE [ApiResponse(store, date, time) EXCEPT
                        !.query = [date |-> date, time |-> time]]
    /\ UNCHANGED <<updateInProgress, runs, store, now, ticks, env, nReq, n200, nStarted>>

ApiRoute(date, time) ==
    /\ resp' = [ApiResponse(store, date, time) EXCEPT
                    !.query = [date |-> date, time |-> time]]
    /\ UNCHANGED <<updateInProgress, runs, store, now, ticks, env, nReq, n200, nStarted>>

DateStr(y, m, d) == Pad4(y) \o <<"-">> \o Pad2(m) \o <<"-">> \o Pad2(d)

TimeStr(h, mi) == Pad2(h) \o <<":">> \o Pad2(mi)

BadDate == <<"2", "0", "2", "5", "-", "9", "-", "2", "8">>
BadTime == <<"2", "2", "3", "0">>

\* The date and time parameters of the requests: absent, well formed, malformed
Queries ==
    {[date |-> <<>>,                 time |-> <<>>],
     [date |-> <<>>,                 time |-> TimeStr(22, 30)],
     [date |-> <<>>,                 time |-> BadTime],
     [date |-> DateStr(2025, 9, 28), time |-> <<>>],
     [date |-> DateStr(2025, 9, 28), time |-> TimeStr(22, 30)],
     [date |-> DateStr(2025, 9, 28), time |-> BadTime],
     [date |-> DateStr(2025, 11, 2), time |-> <<"0", ":", "0", "0">>],
     [date |-> DateStr(2025, 11, 2), time |-> TimeStr(0, 0)],
     [date |-> BadDate,              time |-> TimeStr(22, 30)],
     [date |-> BadDate,              time |-> BadTime]}

Query == \E q \in Queries : ApiRoute(q.date, q.time)

----------------------------------------------------------------------------
(* GET /api/recent *)

\* .slice(0, 30)
RecentDays == 30

\* seq.slice(0, n)
Slice(seq, n) == SubSeq(seq, 1, IF Len(seq) < n THEN Len(seq) ELSE n)

\* The entries pushed for the sorted time files of one date folder; a read
\* or parse that throws ends the folder (catch: continue) and keeps the
\* entries pushed before it.
RECURSIVE FolderIntervals(_, _, _)
FolderIntervals(st, dateFolder, timeFiles) ==
    IF timeFiles = <<>> THEN <<>>
    ELSE IF st[dateFolder].files[Head(timeFiles)].kind # "json" THEN <<>>
    ELSE <<[date      |-> dateFolder,
            time      |-> TimeStrOf(Head(timeFiles)),
            colors    |-> st[dateFolder].files[Head(timeFiles)].colors,
            timestamp |-> KeyTimestamp(dateFolder, TimeStrOf(Head(timeFiles)))]>>
         \o FolderIntervals(st, dateFolder, Tail(timeFiles))

\* allIntervals after the loop over the date folders
RECURSIVE AllIntervals(_, _)
AllIntervals(st, dateFolders) ==
    IF dateFolders = <<>> THEN <<>>
    ELSE FolderIntervals(st, Head(dateFolders), SortAsc(TimeFiles(st, Head(dateFolders))))
         \o AllIntervals(st, Tail(dateFolders))

\* x put into a sequence in descending order of timestamp, behind the
\* entries that are not older than it
InsertAt(sorted, x, k) == SubSeq(sorted, 1, k) \o <<x>> \o SubSeq(sorted, k + 1, Len(sorted))

InsertByTimestamp(sorted, x) ==
    InsertAt(sorted, x,
             Cardinality({j \in 1..Len(sorted) : sorted[j].timestamp >= x.timestamp}))

\* allIntervals.sort((a, b) => b.timestamp - a.timestamp): descending, and
\* stable, so equal timestamps keep their order
Unsorted(seq) == seq

RECURSIVE SortByTimestamp(_)
SortByTimestamp(seq) ==
    IF seq = <<>> THEN <<>>
    ELSE InsertByTimestamp(SortByTimestamp(SubSeq(seq, 1, Len(seq) - 1)), seq[Len(seq)])

\* The body of the 200 answer for the date folders taken
RecentBody(dateFolders, allIntervals) ==
    [Outcome("recent", 200, "recent", NoColors, 0, SortByTimestamp(allIntervals)) EXCEPT
        !.totalIntervals = Len(allIntervals),
        !.daysIncluded   = Len(dateFolders),
        !.reads          = <<"readdirSync">>]

RecentOfFolders(st, dateFolders) == RecentBody(dateFolders, AllIntervals(st, dateFolders))

RecentResponse(st) == RecentOfFolders(st, Slice(SortDesc(DateFolders(st)), RecentDays))

RecentRoute ==
    /\ resp' = RecentResponse(store)
    /\ UNCHANGED <<updateInProgress, runs, store, now, ticks, env, nReq, n200, nStarted>>

----------------------------------------------------------------------------
(* GET /api/available-dates *)

\* The entry pushed for a date folder with its time files; the formatted
\* date of the entry, a rendering of the folder name, is left out.
DateSummary(dateFolder, timeFiles, sortedTimes) ==
    [date          |-> dateFolder,
     intervalCount |-> Cardinality(timeFiles),
     firstTime     |-> sortedTimes[1],
     lastTime      |-> sortedTimes[Len(sortedTimes)]]

SortedTimesDescending(timeFiles) == SortDesc({TimeStrOf(f) : f \in timeFiles})

\* timeFiles.map(...).sort(): the labels in ascending order of code units
SortedTimes(timeFiles) == SortAsc({TimeStrOf(f) : f \in timeFiles})

\* availableDates after the loop over the date folders: a folder without
\* time files pushes nothing
RECURSIVE AvailableDates(_, _)
AvailableDates(st, dateFolders) ==
    IF dateFolders = <<>> THEN <<>>
    ELSE (IF TimeFiles(st, Head(dateFolders)) # {}
          THEN <<DateSummary(Head(dateFolders), TimeFiles(st, Head(dateFolders)),
                             SortedTimes(TimeFiles(st, Head(dateFolders))))>>
          ELSE <<>>)
         \o AvailableDates(st, Tail(dateFolders))

\* res.json({availableDates, totalDates, latestDate, oldestDate})
AvailableDatesBody(availableDates) ==
    [Outcome("available-dates", 200, "available-dates", NoColors, 0, NoIntervals) EXCEPT
        !.availableDates = availableDates,
        !.totalDates     = Len(availableDates),
        !.latestDate     = IF Len(availableDates) > 0
                           THEN availableDates[1].date ELSE Absent,
        !.oldestDate     = IF Len(availableDates) > 0
                           THEN availableDates[Len(availableDates)].date ELSE Absent,
        !.reads          = <<"readdirSync">>]

AvailableDatesResponse(st) ==
    AvailableDatesBody(AvailableDates(st, SortDesc(DateFolders(st))))

AvailableDatesRoute ==
    /\ resp' = AvailableDatesResponse(store)
    /\ UNCHANGED <<updateInProgress, runs, store, now, ticks, env, nReq, n200, nStarted>>

----------------------------------------------------------------------------
(* The clock *)

TickSteps == {15 * 60}

\* A clock whose passing ends the run in flight
TickTimesOut ==
    /\ ticks < MaxTicks
    /\ ticks' = ticks + 1
    /\ \E step \in TickSteps : now' = now + step
    /\ updateInProgress' = FALSE
    /\ runs' = <<>>
    /\ UNCHANGED <<store, env, resp, nReq, n200, nStarted>>

Tick ==
    /\ ticks < MaxTicks
    /\ ticks' = ticks + 1
    /\ \E step \in TickSteps : now' = now + step
    /\ UNCHANGED <<updateInProgress, runs, store, env, resp, nReq, n200, nStarted>>

----------------------------------------------------------------------------
(* Initial states *)

\* 22:30 New York time on 2025-09-28, and 23:45 on the eve of the change
\* back to standard time (2025-11-02)
StartInstants == {DateUTC(2025, 9, 29, 2, 30), DateUTC(2025, 11, 2, 3, 45)}

\* Hosts: the zone of the process (UTC, or UTC-10 as in Honolulu), the
\* hour cycle that hour12: false selects in the build's Intl data, and
\* cache.updateIntervalMinutes of config.json.
Envs == [tz : {0, -36000}, hourCycle : {"h23", "h24"}, intervalMinutes : {15}]

EmptyStore == <<>>

Init ==
    /\ updateInProgress = FALSE
    /\ runs = <<>>
    /\ store = EmptyStore
    /\ now \in StartInstants
    /\ ticks = 0
    /\ env \in Envs
    /\ resp = Plain("none", 0, "none")
    /\ nReq = 0
    /\ n200 = 0
    /\ nStarted = 0

RunStep ==
    \E id \in DOMAIN runs :
        \/ PipelineResolve(id)
        \/ PipelineReject(id)
        \/ \E c \in Colors : SaveSnapshot(id, c)

Next ==
    \/ UpdateCacheRoute
    \/ RunStep
    \/ Query
    \/ RecentRoute
    \/ AvailableDatesRoute
    \/ Tick

Spec == Init /\ [][Next]_vars

\* The same program with updateCacheFiles also called from outside the route
NextDirect ==
    \/ UpdateCacheRoute
    \/ DirectCall
    \/ RunStep
    \/ Query
    \/ RecentRoute
    \/ AvailableDatesRoute
    \/ Tick

SpecDirect == Init /\ [][NextDirect]_vars


----------------------------------------------------------------------------
(* The read paths over the stores a data/ directory can hold when the       *)
(* process starts: snapshots of earlier runs, files that do not parse, and  *)
(* entries that are not snapshots at all.                                   *)

TimeFileName(h, mi) == Pad2(h) \o <<"-">> \o Pad2(mi) \o DotJson

NotesTxt == <<"n", "o", "t", "e", "s", ".", "t", "x", "t">>
BackupName == <<"b", "a", "c", "k", "u", "p">>

\* The functions with a domain inside D and values in V
PartialFunctions(D, V) == UNION {[S -> V] : S \in SUBSET D}

\* What a date directory can hold: two time slots, a file that is no time slot
DirContents ==
    {f \in PartialFunctions({TimeFileName(22, 30), TimeFileName(22, 45), NotesTxt},
                            {JsonFile(ColorA), JsonFile(ColorB), BadFile}) :
        /\ NotesTxt \in DOMAIN f => f[NotesTxt] = BadFile
        /\ TimeFileName(22, 30) \in DOMAIN f => f[TimeFileName(22, 30)] # JsonFile(ColorB)
        /\ TimeFileName(22, 45) \in DOMAIN f => f[TimeFileName(22, 45)] # JsonFile(ColorA)}

\* Two date directories, a plain file with the name of a later date, and a
\* directory that is not named as a date but holds a time-slot file
StartStores ==
    {st \in PartialFunctions({DateStr(2025, 9, 27), DateStr(2025, 9, 28),
                              DateStr(2025, 9, 29), BackupName},
                             {PlainFile} \cup {Dir(f) : f \in DirContents}) :
        /\ DateStr(2025, 9, 29) \in DOMAIN st => st[DateStr(2025, 9, 29)] = PlainFile
        /\ BackupName \in DOMAIN st =>
               st[BackupName] = Dir([f \in {TimeFileName(22, 45)} |-> JsonFile(ColorB)])
        /\ \A d \in {DateStr(2025, 9, 27), DateStr(2025, 9, 28)} :
               d \in DOMAIN st => st[d].isDir}

InitStore ==
    /\ updateInProgress = FALSE
    /\ runs = <<>>
    /\ store \in StartStores
    /\ now = DateUTC(2025, 9, 29, 2, 30)
    /\ ticks = 0
    /\ env = [tz |-> 0, hourCycle |-> "h23", intervalMinutes |-> 15]
    /\ resp = Plain("none", 0, "none")
    /\ nReq = 0
    /\ n200 = 0
    /\ nStarted = 0

NextStore == Query \/ RecentRoute \/ AvailableDatesRoute

SpecStore == InitStore /\ [][NextStore]_vars

----------------------------------------------------------------------------
(* GET /api/recent over stores with more date directories than it takes *)

MaxDateFolders == 32

\* The i-th date of the stores: 2025-10-03 onwards, across the change back
\* to standard time on 2025-11-02
RecentDateOf(c) == DateStr(c.y, c.m, c.d)

RecentDate(i) == RecentDateOf(DateOfDayOfYear(DaysBeforeMonth[10] + 2 + i - 1))

DayOfMonth(d) == ToNumber(SubSeq(d, 9, 10))

BothSlots ==
    [f \in {TimeFileName(22, 30), TimeFileName(22, 45)} |->
        IF f = TimeFileName(22, 30) THEN JsonFile(ColorA) ELSE JsonFile(ColorB)]

TornSlots ==
    [f \in {TimeFileName(22, 30), TimeFileName(22, 45)} |->
        IF f = TimeFileName(22, 30) THEN BadFile ELSE JsonFile(ColorB)]

LateSlot == [f \in {TimeFileName(22, 45), NotesTxt} |->
                IF f = NotesTxt THEN BadFile ELSE JsonFile(ColorB)]

OnlyNotes == [f \in {NotesTxt} |-> BadFile]

\* The directory of date d in a store of n dates: both slots everywhere;
\* one slot on odd days and none on even days; both slots with the first
\* one unreadable in the newest directory
FolderOf(variant, d, n) ==
    CASE variant = "both"   -> Dir(BothSlots)
      [] variant = "sparse" -> Dir(IF DayOfMonth(d) % 2 = 1 THEN LateSlot ELSE OnlyNotes)
      [] variant = "torn"   -> Dir(IF d = RecentDate(n) THEN TornSlots ELSE BothSlots)

\* n date directories, a directory that is not named as a date and a plain
\* file named as a later date
RecentStore(variant, n) ==
    [d \in {RecentDate(i) : i \in 1..n} \cup {BackupName, DateStr(2025, 12, 1)} |->
        IF d = BackupName THEN Dir(BothSlots)
        ELSE IF d = DateStr(2025, 12, 1) THEN PlainFile
        ELSE FolderOf(variant, d, n)]

RecentStores ==
    {RecentStore(v, n) : v \in {"both", "sparse", "torn"}, n \in 0..MaxDateFolders}

InitRecent ==
    /\ updateInProgress = FALSE
    /\ runs = <<>>
    /\ store \in RecentStores
    /\ now = DateUTC(2025, 11, 4, 3, 45)
    /\ ticks = 0
    /\ env \in {e \in Envs : e.hourCycle = "h23"}
    /\ resp = Plain("none", 0, "none")
    /\ nReq = 0
    /\ n200 = 0
    /\ nStarted = 0

NextRecent == RecentRoute

SpecRecent == InitRecent /\ [][NextRecent]_vars

----------------------------------------------------------------------------
(* The update coordinator in a process that can be stopped and started      *)
(* again: the module state is built anew, data/ is what it was              *)

\* The process is restarted: let updateInProgress = false, and the run that
\* was in flight is gone with the old process
Restart ==
    /\ updateInProgress' = FALSE
    /\ runs' = <<>>
    /\ resp' = Plain("restart", 0, "restart")
    /\ UNCHANGED <<store, now, ticks, env, nReq, n200, nStarted>>

NextRestart ==
    \/ UpdateCacheRoute
    \/ RunStep
    \/ Tick
    \/ Restart

SpecRestart == Init /\ [][NextRestart]_vars

----------------------------------------------------------------------------
(* The update coordinator when every awaited pipeline call completes: a run *)
(* in flight is suspended at an await whose promise settles in the end, so  *)
(* its next step is taken (weak fairness of RunStep)                        *)

NextLive ==
    \/ UpdateCacheRoute
    \/ RunStep
    \/ Tick

SpecLive == Init /\ [][NextLive]_vars /\ WF_vars(RunStep)

----------------------------------------------------------------------------
(* Update runs a quarter of an hour apart around civil midnight and in the  *)
(* hour that 2025-11-02 repeats                                             *)

\* New York time 22:30 on 2025-09-28; 23:45 on 2025-11-01; 00:45 and 01:45
\* (daylight time) on 2025-11-02, the latter a quarter of an hour before
\* the clocks go back to 01:00
RunInstants ==
    {DateUTC(2025, 9, 29, 2, 30), DateUTC(2025, 11, 2, 3, 45),
     DateUTC(2025, 11, 2, 4, 45), DateUTC(2025, 11, 2, 5, 45)}

InitRuns ==
    /\ updateInProgress = FALSE
    /\ runs = <<>>
    /\ store = EmptyStore
    /\ now \in RunInstants
    /\ ticks = 0
    /\ env \in Envs
    /\ resp = Plain("none", 0, "none")
    /\ nReq = 0
    /\ n200 = 0
    /\ nStarted = 0

SpecRuns == InitRuns /\ [][NextLive]_vars

----------------------------------------------------------------------------
(* The read paths over stores whose snapshots lie on and around the two     *)
(* changes of New York time in 2025 (2025-03-09 and 2025-11-02)             *)

KeyDates == {DateStr(2025, 3, 8), DateStr(2025, 3, 9), DateStr(2025, 3, 10),
             DateStr(2025, 11, 1), DateStr(2025, 11, 2), DateStr(2025, 11, 3)}

KeySlots == {TimeFileName(0, 0), TimeFileName(1, 30), TimeFileName(2, 30),
             TimeFileName(23, 45)}

\* The keys an update run can write: 02:30 does not exist on 2025-03-09
StorageKeys ==
    {k \in KeyDates \X KeySlots :
        ~(k[1] = DateStr(2025, 3, 9) /\ k[2] = TimeFileName(2, 30))}

\* The store that holds a snapshot at each key of K
StoreOfKeys(K) ==
    [d \in {k[1] : k \in K} |->
        Dir([f \in {k[2] : k \in {x \in K : x[1] = d}} |->
                IF f = TimeFileName(23, 45) THEN JsonFile(ColorB) ELSE JsonFile(ColorA)])]

\* The stores of one or two snapshots
KeyStores == {StoreOfKeys({a, b}) : a \in StorageKeys, b \in StorageKeys}

\* 01:45 New York time on 2025-11-02, a quarter of an hour before the
\* change back to standard time
InitKeys ==
    /\ updateInProgress = FALSE
    /\ runs = <<>>
    /\ store \in KeyStores
    /\ now = DateUTC(2025, 11, 2, 5, 45)
    /\ ticks = 0
    /\ env \in {e \in Envs : e.hourCycle = "h23"}
    /\ resp = Plain("none", 0, "none")
    /\ nReq = 0
    /\ n200 = 0
    /\ nStarted = 0

\* GET /api for the latest snapshot, for a snapshot of the store and for
\* its date
KeyQuery ==
    \/ ApiRoute(<<>>, <<>>)
    \/ \E d \in DateFolders(store) :
           \/ ApiRoute(d, <<>>)
           \/ \E f \in TimeFiles(store, d) : ApiRoute(d, TimeStrOf(f))

NextKeys == KeyQuery \/ RecentRoute \/ Tick

SpecKeys == InitKeys /\ [][NextKeys]_vars

----------------------------------------------------------------------------
(* GET /api for the latest snapshot at instants on and off the boundaries   *)
(* of the update interval, for several configured interval lengths          *)

\* The instant of second s of minute mi of hour h (UTC) of a date
DateUTCSeconds(y, m, d, h, mi, s) == DateUTC(y, m, d, h, mi) + s

\* New York times of 2025-01-15 (standard time): 00:07, 00:50, 14:07,
\* 14:15:00, 14:15:30, 14:50, 23:50; 14:07 on 2025-07-15 (daylight time);
\* 00:07 (daylight time), 14:07 and 14:50 (standard time) on 2025-11-02, the
\* date of the change back to standard time
ClockInstants ==
    {DateUTCSeconds(2025, 1, 15, 5, 7, 0),   DateUTCSeconds(2025, 1, 15, 5, 50, 0),
     DateUTCSeconds(2025, 1, 15, 19, 7, 0),
     DateUTCSeconds(2025, 1, 15, 19, 15, 0), DateUTCSeconds(2025, 1, 15, 19, 15, 30),
     DateUTCSeconds(2025, 1, 15, 19, 50, 0), DateUTCSeconds(2025, 1, 16, 4, 50, 0),
     DateUTCSeconds(2025, 7, 15, 18, 7, 0),  DateUTCSeconds(2025, 11, 2, 4, 7, 0),
     DateUTCSeconds(2025, 11, 2, 19, 7, 0),
     DateUTCSeconds(2025, 11, 2, 19, 50, 0)}

\* Interval lengths of config.json: the usual 15, and 7 and 45, which do
\* not divide 60
IntervalLengths == {7, 15, 45}

ClockEnvs == [tz : {0, -36000}, hourCycle : {"h23", "h24"},
              intervalMinutes : IntervalLengths]

\* The store holds the snapshot of 23:45 on 2025-01-14
InitClock ==
    /\ updateInProgress = FALSE
    /\ runs = <<>>
    /\ store = StoreOfKeys({<<DateStr(2025, 1, 14), TimeFileName(23, 45)>>})
    /\ now \in ClockInstants
    /\ ticks = 0
    /\ env \in ClockEnvs
    /\ resp = Plain("none", 0, "none")
    /\ nReq = 0
    /\ n200 = 0
    /\ nStarted = 0

LatestQuery == ApiRoute(<<>>, <<>>)

NextClock == LatestQuery \/ Tick

SpecClock == InitClock /\ [][NextClock]_vars

----------------------------------------------------------------------------
(* C1..C6: the update coordinator *)

InFlight == Cardinality(DOMAIN runs)

\* A step in which an update run ends (its finally block has run)
RunEnds == InFlight' < InFlight

\* A step that handles an update trigger
TriggerStep == nReq' # nReq

\* C1: single-flight.  In every reachable state at most one update run is
\* between setting updateInProgress and its finally block, and the flag is
\* set exactly while a run is in flight, whatever the interleaving of
\* /update-cache requests and direct calls of updateCacheFiles.
C1_SingleFlight ==
    /\ InFlight <= 1
    /\ updateInProgress <=> (InFlight = 1)

\* A direct call arrived while a run was in flight and was skipped
C1_Witness ==
    /\ InFlight = 1
    /\ resp.op = "direct"
    /\ resp.msg = "skipped"

\* C2: whenever a started run ends, at whichever step it failed or after it
\* saved its snapshot, updateInProgress is false afterwards, and a trigger
\* handled next is accepted.
C2_GuardReleased ==
    [][/\ RunEnds => ~updateInProgress'
       /\ (resp.op = "run" /\ TriggerStep /\ resp'.op = "update-cache")
             => (resp'.status = 200 /\ nStarted' = nStarted + 1)]_vars

\* A second run was accepted and has failed at its colour extraction
C2_Witness ==
    /\ resp.op = "run"
    /\ resp.msg = "colors"
    /\ nStarted = 2
    /\ ~updateInProgress

PipelineStepNames == {PipelineSteps[i] : i \in 1..Len(PipelineSteps)}

\* C3: a run that fails at a step of the imaging pipeline writes no file and
\* creates no directory: the store is what it was and readLatest answers
\* as before.
C3_FailedRunLeavesStore ==
    [][(RunEnds /\ resp'.op = "run" /\ resp'.msg \in PipelineStepNames)
          => /\ store' = store
             /\ getLatestColorData(store') = getLatestColorData(store)]_vars

\* A run failed at ffprobe while an earlier snapshot was the latest
C3_Witness ==
    /\ resp.op = "run"
    /\ resp.msg = "ffprobe"
    /\ getLatestColorData(store).found

\* C4: GET /update-cache answers 429 exactly when updateInProgress is true
\* when the request is handled; otherwise it starts a run and answers 200
\* "processing" while that run is still in flight.
C4_RouteResponse ==
    [][(TriggerStep /\ resp'.op = "update-cache")
          => IF updateInProgress
             THEN resp'.status = 429 /\ nStarted' = nStarted
             ELSE /\ resp'.status = 200
                  /\ resp'.msg = "processing"
                  /\ nStarted' = nStarted + 1
                  /\ nStarted' \in DOMAIN runs']_vars

\* A request was answered 429 during a run
C4_Witness ==
    /\ resp.op = "update-cache"
    /\ resp.status = 429
    /\ updateInProgress

\* C5: a trigger received while a run is in flight changes nothing: the
\* store and the run are as before and updateInProgress stays true.
C5_RejectedTriggerFrame ==
    [][(TriggerStep /\ updateInProgress)
          => /\ store' = store
             /\ runs' = runs
             /\ updateInProgress']_vars

\* The second request was rejected while the first request's run waits for
\* its crops
C5_Witness ==
    /\ resp.op = "update-cache"
    /\ resp.status = 429
    /\ nReq = 2
    /\ InFlight = 1
    /\ \E id \in DOMAIN runs : runs[id] = "crops"

\* C6: rejected triggers are not queued: the number of runs started never
\* exceeds the number of triggers answered 200, and a run starts only in
\* the step that answers its trigger 200.
C6_NoQueuedRuns ==
    /\ nStarted <= n200
    /\ InFlight <= n200

\* A trigger was rejected, the run in flight has ended and nothing started
C6_Witness ==
    /\ nReq = 2
    /\ n200 = 1
    /\ nStarted = 1
    /\ InFlight = 0
    /\ resp.op = "run"


----------------------------------------------------------------------------
(* C7..C10: the snapshot store *)

\* The keys of the store: the files named HH-MM.json inside the directories
\* named YYYY-MM-DD
SnapshotKeys(st) ==
    UNION {{<<d, f>> : f \in TimeFiles(st, d)} : d \in DateFolders(st)}

\* A key's date as the number YYYYMMDD and its time slot as the number HHMM
DateNumber(d) ==
    ToNumber(SubSeq(d, 1, 4)) * 10000 + ToNumber(SubSeq(d, 6, 7)) * 100
        + ToNumber(SubSeq(d, 9, 10))

SlotNumber(f) == ToNumber(SubSeq(f, 1, 2)) * 100 + ToNumber(SubSeq(f, 4, 5))

KeyBefore(a, b) ==
    \/ DateNumber(a[1]) < DateNumber(b[1])
    \/ DateNumber(a[1]) = DateNumber(b[1]) /\ SlotNumber(a[2]) < SlotNumber(b[2])

FileAt(st, k) == st[k[1]].files[k[2]]

\* C7: readLatest returns NotFound on a store with no date directories or
\* with only date directories that hold no time-slot file, and once exactly
\* one snapshot has been written it returns the colours of that snapshot.
C7_LatestOfEmptyAndSingle ==
    LET keys   == SnapshotKeys(store)
        latest == getLatestColorData(store)
    IN  /\ keys = {} => latest = NotFound
        /\ \A k \in keys :
              (keys = {k} /\ FileAt(store, k).kind = "json")
                 => (latest.found /\ latest.colors = FileAt(store, k).colors)

\* GET /api answered with the single snapshot of the store, which lies in
\* an earlier date directory than an empty one
C7_Witness ==
    /\ resp.op = "api"
    /\ resp.query = NoQuery
    /\ resp.status = 200
    /\ Cardinality(SnapshotKeys(store)) = 1
    /\ \E d \in DateFolders(store) : TimeFiles(store, d) = {}
    /\ \E k \in SnapshotKeys(store) : resp.colors = FileAt(store, k).colors

\* C8: for any store contents readLatest returns the snapshot at the greatest
\* (date folder, time slot) key among the files named HH-MM.json in the
\* directories named YYYY-MM-DD (null when that file cannot be read); date
\* directories without such a file are skipped, other entries are ignored.
C8_LatestIsGreatestKey ==
    LET keys   == SnapshotKeys(store)
        latest == getLatestColorData(store)
    IN  IF keys = {} THEN latest = NotFound
        ELSE LET k == CHOOSE x \in keys : \A o \in keys \ {x} : KeyBefore(o, x)
             IN  latest = IF FileAt(store, k).kind = "json"
                          THEN Snapshot(FileAt(store, k).colors,
                                        KeyTimestamp(k[1], TimeStrOf(k[2])))
                          ELSE NotFound

\* GET /api answered from 2025-09-27 22:45 in a store whose later date
\* directory holds no time slot and that has entries that are not snapshots
C8_Witness ==
    /\ resp.op = "api"
    /\ resp.query = NoQuery
    /\ resp.status = 200
    /\ resp.colors = ColorB
    /\ BackupName \in DOMAIN store
    /\ DateStr(2025, 9, 29) \in DOMAIN store
    /\ DateStr(2025, 9, 28) \in DateFolders(store)
    /\ TimeFiles(store, DateStr(2025, 9, 28)) = {}
    /\ DOMAIN store[DateStr(2025, 9, 28)].files = {NotesTxt}
    /\ TimeFiles(store, DateStr(2025, 9, 27)) =
           {TimeFileName(22, 30), TimeFileName(22, 45)}

\* A step in which a run saved its snapshot
SavedStep == RunEnds /\ resp'.op = "run" /\ resp'.msg = "saved"

\* A step in which a run attempted its file write
WriteStep == RunEnds /\ resp'.op = "run" /\ resp'.msg \in {"saved", "write"}

\* C9: last write wins per key.  When a run saves colours at a key, readExact
\* of that key returns those colours; a write, saved or failed, leaves what
\* readExact returns for every other key, and a step that writes nothing
\* changes the result of no key.
C9_LastWriteWins ==
    [][(store' # store \/ SavedStep) => \A k \in SnapshotKeys(store') :
          LET date   == k[1]
              time   == TimeStrOf(k[2])
              before == getColorDataForDateTime(store, date, time)
              after  == getColorDataForDateTime(store', date, time)
          IN  /\ (SavedStep /\ resp'.query = [date |-> date, time |-> time])
                    => (after.ok /\ after.colors = resp'.colors)
              /\ (WriteStep /\ resp'.query # [date |-> date, time |-> time])
                    => after = before
              /\ ~WriteStep => after = before]_vars

\* After writes at 2025-09-28 22:30 and 22:45, GET /api for 22:30 returned
\* the 22:30 colours while readLatest returns the 22:45 snapshot
C9_Witness ==
    /\ resp.op = "api"
    /\ resp.query = [date |-> DateStr(2025, 9, 28), time |-> TimeStr(22, 30)]
    /\ resp.status = 200
    /\ resp.colors = ColorA
    /\ ExistsFile(store, DateStr(2025, 9, 28), TimeFileName(22, 45))
    /\ getLatestColorData(store).colors = ColorB
    /\ getLatestColorData(store).timestamp = resp.timestamp + 15 * 60

MinuteOfDay(timeStr) ==
    ToNumber(SubSeq(timeStr, 1, 2)) * 60 + ToNumber(SubSeq(timeStr, 4, 5))

\* C10: readAllForDate returns the entries of a date in strictly ascending
\* time-of-day order, and their number (totalIntervals of GET /api) is the
\* number of distinct time-slot files of the date.
C10_AllForDateAscending ==
    \A d \in DOMAIN store :
        LET r == ApiResponse(store, d, <<>>)
        IN  r.status = 200 =>
              /\ r.intervals = getAllColorDataForDate(store, d).intervals
              /\ Len(r.intervals) = Cardinality(TimeFiles(store, d))
              /\ \A i \in 1..(Len(r.intervals) - 1) :
                    /\ MinuteOfDay(r.intervals[i].time)
                          < MinuteOfDay(r.intervals[i + 1].time)
                    /\ r.intervals[i].timestamp < r.intervals[i + 1].timestamp

\* GET /api?date=2025-09-28 answered with both time slots of the date
C10_Witness ==
    /\ resp.op = "api"
    /\ resp.query = [date |-> DateStr(2025, 9, 28), time |-> <<>>]
    /\ resp.status = 200
    /\ Len(resp.intervals) = 2
    /\ resp.intervals[1].time = TimeStr(22, 30)
    /\ resp.intervals[2].time = TimeStr(22, 45)

----------------------------------------------------------------------------
(* C11..C20: the query resolver *)

BothPresent(q) == q.date # <<>> /\ q.time # <<>>

DateOnly(q) == q.date # <<>> /\ q.time = <<>>

TimeOnly(q) == q.date = <<>> /\ q.time # <<>>

\* C11: GET /api with neither date nor time answers from readLatest with
\* isHistoricalData false and carries cacheAge and nextUpdate; with both it
\* answers from readExact with isHistoricalData true and carries neither;
\* in every successful answer each of the two fields is present exactly
\* when the answer is not historical.
C11_MetadataOnlyForCurrent ==
    \A q \in Queries :
        LET r == ApiResponse(store, q.date, q.time)
        IN  r.status = 200 =>
              /\ q = NoQuery =>
                    /\ r.reads = <<"getLatestColorData">>
                    /\ r.colors = getLatestColorData(store).colors
                    /\ ~r.isHistoricalData
                    /\ r.cacheAge = <<now - getLatestColorData(store).timestamp>>
                    /\ r.nextUpdate # Absent
              /\ BothPresent(q) =>
                    /\ r.reads = <<"getColorDataForDateTime">>
                    /\ r.colors = getColorDataForDateTime(store, q.date, q.time).colors
                    /\ r.isHistoricalData
                    /\ r.cacheAge = Absent
                    /\ r.nextUpdate = Absent
              /\ (r.cacheAge # Absent) <=> ~r.isHistoricalData
              /\ (r.nextUpdate # Absent) <=> ~r.isHistoricalData

\* GET /api without parameters answered a quarter of an hour after the
\* latest snapshot, in a store that an exact query is answered from too
C11_Witness ==
    /\ resp.op = "api"
    /\ resp.query = NoQuery
    /\ resp.status = 200
    /\ ~resp.isHistoricalData
    /\ resp.cacheAge = <<15 * 60>>
    /\ resp.nextUpdate # Absent
    /\ \E q \in Queries :
          /\ BothPresent(q)
          /\ ApiResponse(store, q.date, q.time).status = 200
          /\ ApiResponse(store, q.date, q.time).isHistoricalData

\* The entry of a date-only answer for the time-slot file f of date d
EntryOf(st, d, f) ==
    [time      |-> TimeStrOf(f),
     colors    |-> st[d].files[f].colors,
     timestamp |-> KeyTimestamp(d, TimeStrOf(f))]

C13_LoneTimeRejected ==
    \A q \in Queries :
        TimeOnly(q) =>
            LET r == ApiResponse(store, q.date, q.time)
            IN  /\ r.status = 400
                /\ r.reads = NoReads
                /\ r = ApiResponse(EmptyStore, q.date, q.time)
                /\ r.colors = NoColors
                /\ r.intervals = NoIntervals

\* A malformed time without a date answered 400 over a store that holds a
\* snapshot
C13_Witness ==
    /\ resp.op = "api"
    /\ TimeOnly(resp.query)
    /\ ~IsTimeParam(resp.query.time)
    /\ resp.status = 400
    /\ resp.reads = NoReads
    /\ getLatestColorData(store).found

\* The messages of the validation failures and of the NotFound outcomes
ValidationMessages == {"Invalid date format", "Invalid time format"}

NotFoundMessages ==
    {"No data available for date", "No data available for date at time",
     "No color data files found for date"}

\* Malformed dates, and malformed times besides BadTime
MalformedDates ==
    {BadDate, <<"2", "0", "2", "5", "0", "9", "2", "8">>,
     DateStr(2025, 9, 28) \o <<"x">>}

MalformedTimes == {BadTime, <<"2", "2", ":", "3">>, <<"2", "2", "-", "3", "0">>}

\* The queries the claims on validation are evaluated for
ProbeQueries ==
    Queries
      \cup [date : MalformedDates, time : {<<>>, TimeStr(22, 30), BadTime}]
      \cup [date : {DateStr(2025, 9, 28), DateStr(2025, 9, 27)}, time : MalformedTimes]

Malformed(q) ==
    \/ q.date # <<>> /\ ~IsDateName(q.date)
    \/ q.time # <<>> /\ ~IsTimeParam(q.time)

\* A well-formed query with a date for which the store holds no snapshot
NoSnapshotFor(st, q) ==
    /\ ~Malformed(q)
    /\ \/ /\ BothPresent(q)
          /\ ~ExistsFile(st, q.date,
                         ReplaceFirst(NormalizeTime(q.time), ":", "-") \o DotJson)
       \/ /\ DateOnly(q)
          /\ q.date \notin DOMAIN st \/ (st[q.date].isDir /\ TimeFiles(st, q.date) = {})

\* C14: a query with a malformed date or time is answered with a validation
\* failure, whatever the store holds, and a well-formed query for which
\* there is no snapshot with a NotFound message; the two kinds of message
\* differ, so the caller can tell them apart.
C14_ValidationDistinctFromNotFound ==
    /\ ValidationMessages \cap NotFoundMessages = {}
    /\ \A q \in ProbeQueries :
          LET r == ApiResponse(store, q.date, q.time)
          IN  /\ Malformed(q) =>
                    /\ r.status = 400
                    /\ r.msg \notin NotFoundMessages
                    /\ q.date # <<>> => r.msg \in ValidationMessages
              /\ NoSnapshotFor(store, q) =>
                    /\ r.status = 400
                    /\ r.msg \in NotFoundMessages

\* A malformed time for a date without a directory answered as a
\* validation failure, a well-formed time for it being answered NotFound
C14_Witness ==
    /\ resp.op = "api"
    /\ resp.query.time = BadTime
    /\ IsDateName(resp.query.date)
    /\ resp.query.date \notin DOMAIN store
    /\ resp.msg = "Invalid time format"
    /\ ApiResponse(store, resp.query.date, TimeStr(22, 30)).msg
           = "No data available for date"

\* HH-MM.json for the time parameter of a well-formed query
SlotFileOf(time) == ReplaceFirst(NormalizeTime(time), ":", "-") \o DotJson

\* C15: readExact for a well-formed date and time throws 'No data available'
\* when the date has no entry in the store and when the date directory
\* lacks the time-slot file, and GET /api answers that with 400 and the
\* message, never with 500.
C15_MissingSnapshotIsNotFound ==
    \A q \in ProbeQueries :
        (BothPresent(q) /\ ~Malformed(q)) =>
            LET r    == ApiResponse(store, q.date, q.time)
                read == getColorDataForDateTime(store, q.date, q.time)
            IN  /\ q.date \notin DOMAIN store =>
                      /\ ~read.ok
                      /\ read.msg = "No data available for date"
                      /\ r.status = 400
                      /\ r.msg = read.msg
                /\ (q.date \in DOMAIN store /\ ~ExistsFile(store, q.date, SlotFileOf(q.time))) =>
                      /\ ~read.ok
                      /\ read.msg = "No data available for date at time"
                      /\ r.status = 400
                      /\ r.msg = read.msg
                /\ ~ExistsFile(store, q.date, SlotFileOf(q.time)) => r.status # 500

\* GET /api for 2025-09-28 22:30 answered NotFound over a store whose
\* directory of that date holds another time slot
C15_Witness ==
    /\ resp.op = "api"
    /\ resp.query = [date |-> DateStr(2025, 9, 28), time |-> TimeStr(22, 30)]
    /\ resp.status = 400
    /\ resp.msg = "No data available for date at time"
    /\ DateStr(2025, 9, 28) \in DateFolders(store)
    /\ TimeFiles(store, DateStr(2025, 9, 28)) = {TimeFileName(22, 45)}

\* "h:mm" for an hour below ten
ShortTime(h, mi) == <<DigitChars[h + 1], ":">> \o Pad2(mi)

\* The minutes the normalisation is evaluated for
NormalizedMinutes == {0, 15, 30, 45}

\* In store st the two spellings of every hour below ten address the same
\* file and have the same outcome, for every date directory of st
HourPaddedIn(st) ==
    \A d \in DateFolders(st), h \in 0..9, mi \in NormalizedMinutes :
        /\ SlotFileOf(ShortTime(h, mi)) = TimeFileName(h, mi)
        /\ getColorDataForDateTime(st, d, ShortTime(h, mi))
              = getColorDataForDateTime(st, d, TimeStr(h, mi))
        /\ ExistsFile(st, d, TimeFileName(h, mi)) /\ st[d].files[TimeFileName(h, mi)].kind = "json"
              => getColorDataForDateTime(st, d, ShortTime(h, mi)).ok

\* C16: readExact pads a one-digit hour before the lookup: in every store
\* the program produces, for a date d, an hour h below ten and a minute mm,
\* "h:mm" and "0h:mm" address the same file and have the same outcome (the
\* same snapshot, or the same error).
C16_HourPadded == [][store' # store => HourPaddedIn(store')]_vars

\* GET /api for 2025-11-02 at "0:00" answered with the snapshot saved in
\* 00-00.json
C16_Witness ==
    /\ resp.op = "api"
    /\ resp.query = [date |-> DateStr(2025, 11, 2), time |-> ShortTime(0, 0)]
    /\ resp.status = 200
    /\ ExistsFile(store, DateStr(2025, 11, 2), TimeFileName(0, 0))
    /\ resp.colors = store[DateStr(2025, 11, 2)].files[TimeFileName(0, 0)].colors

\* C17: while the store holds no snapshot at all, GET /api without
\* parameters is answered with a 400/404-class "no data yet" response and
\* not with a 500.
C17_NoDataYetIsNotFatal ==
    (resp.op = "api" /\ resp.query = NoQuery /\ SnapshotKeys(store) = {})
        => resp.status \in {400, 404}

\* The read of query q meets a time-slot file that cannot be read or parsed:
\* the file of an exact query, a file of the date of a date-only query, the
\* file at the greatest key for a query without parameters
ReadFails(st, q) ==
    \/ /\ BothPresent(q)
       /\ ~Malformed(q)
       /\ ExistsFile(st, q.date, SlotFileOf(q.time))
       /\ st[q.date].files[SlotFileOf(q.time)].kind = "bad"
    \/ /\ DateOnly(q)
       /\ q.date \in DateFolders(st)
       /\ \E f \in TimeFiles(st, q.date) : st[q.date].files[f].kind = "bad"
    \/ /\ q = NoQuery
       /\ SnapshotKeys(st) # {}
       /\ \E k \in SnapshotKeys(st) :
             /\ \A o \in SnapshotKeys(st) \ {k} : KeyBefore(o, k)
             /\ FileAt(st, k).kind = "bad"

\* C18: a query whose read meets a file that cannot be read or parsed fails
\* with 500 and the failure as its message: its answer is neither a NotFound
\* nor a validation answer nor a successful one.
C18_ReadFailureIs500 ==
    (resp.op = "api" /\ ReadFails(store, resp.query)) =>
        /\ resp.status = 500
        /\ resp.msg = "read or parse error"

\* The well-formed dates the date-only answers are evaluated for
KnownOrUnknownDates ==
    {DateStr(2025, 9, 26), DateStr(2025, 9, 27), DateStr(2025, 9, 28)}

\* C19: a date-only query for a date without a directory and one for a date
\* whose directory holds no time-slot file are both answered 400, with
\* different messages: 'No data available for date' for the unknown date,
\* 'No color data files found for date' for the known one.
C19_UnknownDateDistinctFromEmptyDate ==
    \A d \in KnownOrUnknownDates, e \in KnownOrUnknownDates :
        LET unknown == ApiResponse(store, d, <<>>)
            empty   == ApiResponse(store, e, <<>>)
        IN  (/\ d \notin DOMAIN store
             /\ e \in DateFolders(store)
             /\ TimeFiles(store, e) = {})
            => /\ unknown.status = 400
               /\ empty.status = 400
               /\ unknown.msg = "No data available for date"
               /\ empty.msg = "No color data files found for date"
               /\ unknown.msg # empty.msg

\* GET /api?date=2025-09-28 answered 'no files' for a directory that holds
\* only a file that is no time slot, 2025-09-27 having no directory
C19_Witness ==
    /\ resp.op = "api"
    /\ resp.query = [date |-> DateStr(2025, 9, 28), time |-> <<>>]
    /\ resp.status = 400
    /\ resp.msg = "No color data files found for date"
    /\ DOMAIN store[DateStr(2025, 9, 28)].files = {NotesTxt}
    /\ DateStr(2025, 9, 27) \notin DOMAIN store
    /\ ApiResponse(store, DateStr(2025, 9, 27), <<>>).msg = "No data available for date"

\* The date directories GET /api/recent takes: those with fewer than
\* RecentDays date directories of a greater name
RecentFolders(st) ==
    {d \in DateFolders(st) :
        Cardinality({e \in DateFolders(st) : StrLess(d, e)}) < RecentDays}

\* Every time-slot file of date directory d can be read
Readable(st, d) == \A f \in TimeFiles(st, d) : st[d].files[f].kind = "json"

\* The entries of the answer of GET /api/recent
RecentEntries == {resp.intervals[i] : i \in 1..Len(resp.intervals)}

----------------------------------------------------------------------------
(* C21..C30: dates, keys and instants, the next boundary, queries and runs *)

\* The date directories GET /api/available-dates has an entry for
ListedDates(st) == {d \in DateFolders(st) : TimeFiles(st, d) # {}}

\* The HH:MM labels of the time-slot files of a date directory
TimeLabels(st, d) == {TimeStrOf(f) : f \in TimeFiles(st, d)}

\* a is the least (greatest) string of S
IsLeast(a, S) == a \in S /\ \A b \in S \ {a} : StrLess(a, b)
IsGreatest(a, S) == a \in S /\ \A b \in S \ {a} : StrLess(b, a)

SummaryDates(r) == {r.availableDates[i].date : i \in 1..Len(r.availableDates)}

SummariesRight(r, st) ==
    \A i \in 1..Len(r.availableDates) :
        /\ r.availableDates[i].date \in DateFolders(st)
        /\ r.availableDates[i].intervalCount
               = Cardinality(TimeFiles(st, r.availableDates[i].date))
        /\ IsLeast(r.availableDates[i].firstTime,
                   TimeLabels(st, r.availableDates[i].date))
        /\ IsGreatest(r.availableDates[i].lastTime,
                      TimeLabels(st, r.availableDates[i].date))

\* C21 as stated: GET /api/available-dates has a summary (count of time-slot
\* files, least and greatest HH:MM label) for each date directory of the
\* store, and latestDate and oldestDate are the greatest and the least date
\* label of the store.
C21_EveryDateDirectorySummarised ==
    resp.op = "available-dates" =>
        /\ SummaryDates(resp) = DateFolders(store)
        /\ Len(resp.availableDates) = Cardinality(DateFolders(store))
        /\ SummariesRight(resp, store)
        /\ DateFolders(store) # {} =>
               /\ IsGreatest(resp.latestDate, DateFolders(store))
               /\ IsLeast(resp.oldestDate, DateFolders(store))

\* C21, amended: GET /api/available-dates has one summary for each date
\* directory that holds at least one time-slot file, with the count of its
\* time-slot files and the least and greatest of their HH:MM labels; a date
\* directory without time-slot files has no summary; latestDate and
\* oldestDate are the greatest and the least of the dates summarised, and
\* null when no date is summarised.
C21_AvailableDatesSummaries ==
    resp.op = "available-dates" =>
        /\ resp.status = 200
        /\ SummaryDates(resp) = ListedDates(store)
        /\ Len(resp.availableDates) = Cardinality(ListedDates(store))
        /\ resp.totalDates = Cardinality(ListedDates(store))
        /\ SummariesRight(resp, store)
        /\ IF ListedDates(store) = {}
           THEN resp.latestDate = Absent /\ resp.oldestDate = Absent
           ELSE /\ IsGreatest(resp.latestDate, ListedDates(store))
                /\ IsLeast(resp.oldestDate, ListedDates(store))

C21_Witness ==
    /\ resp.op = "available-dates"
    /\ Len(resp.availableDates) = 2
    /\ resp.latestDate # resp.oldestDate
    /\ \E i \in 1..2 : /\ resp.availableDates[i].intervalCount = 2
                       /\ resp.availableDates[i].firstTime = TimeStr(22, 30)
                       /\ resp.availableDates[i].lastTime = TimeStr(22, 45)
    /\ \E i \in 1..2 : resp.availableDates[i].intervalCount = 1

\* A date directory without time-slot files is left out of the answer
C21_EmptyDirectoryWitness ==
    /\ resp.op = "available-dates"
    /\ DateFolders(store) # ListedDates(store)
    /\ Len(resp.availableDates) = 1

\* The entries of a GET /api/recent answer
ListedAt(r, i) == <<r.intervals[i].date, r.intervals[i].time>>

\* C22: for any two storage keys k1 < k2 (date folder, then time slot, as
\* strings) the instant computed for k1 is strictly earlier than the instant
\* computed for k2, also on and around the dates of a daylight-saving
\* change: in an answer of GET /api/recent the entries of smaller keys carry
\* smaller timestamps.
C22_KeyOrderIsTimeOrder ==
    resp.op = "recent" =>
        \A i, j \in 1..Len(resp.intervals) :
            KeyBefore(ListedAt(resp, i), ListedAt(resp, j))
                => resp.intervals[i].timestamp < resp.intervals[j].timestamp

\* The key lies in the hour that 2025-03-09 skips or 2025-11-02 repeats
InTransitionHour(d, timeStr) ==
    \/ d = DateStr(2025, 3, 9) /\ ToNumber(SubSeq(timeStr, 1, 2)) = 2
    \/ d = DateStr(2025, 11, 2) /\ ToNumber(SubSeq(timeStr, 1, 2)) = 1

\* The key an update run at instant t writes, as date folder and HH:MM
CivilKeyOf(t) == <<DateFolderOf(t), TimeStrOf(TimeFilenameOf(t))>>

\* C23: round trip.  The instant the read paths compute for a key outside
\* the skipped or repeated hour, formatted as the update run formats its
\* key (New York date and HH:MM), is the key again: every entry of a GET
\* /api/recent answer carries the timestamp whose New York date and time
\* are the entry's date and time.
C23_KeyRoundTrip ==
    resp.op = "recent" =>
        \A i \in 1..Len(resp.intervals) :
            ~InTransitionHour(resp.intervals[i].date, resp.intervals[i].time)
                => CivilKeyOf(resp.intervals[i].timestamp) = ListedAt(resp, i)

\* The key of the snapshot readLatest returns from a store whose files are
\* all readable: the greatest date folder, the greatest time slot in it
LatestKey(st) ==
    LET k == CHOOSE a \in SnapshotKeys(st) :
                 \A b \in SnapshotKeys(st) \ {a} : KeyBefore(b, a)
    IN  <<k[1], TimeStrOf(k[2])>>

KeyAndTimestamp(key, timestamp) == [key |-> key, timestamp |-> timestamp]

\* The keys a 200 answer reports a timestamp for, each with that timestamp
Reported(r, st) ==
    IF r.status # 200 THEN {}
    ELSE IF r.op = "recent"
    THEN {KeyAndTimestamp(ListedAt(r, i), r.intervals[i].timestamp) :
              i \in 1..Len(r.intervals)}
    ELSE IF r.op = "api" /\ r.msg = "date-only"
    THEN {KeyAndTimestamp(<<r.query.date, r.intervals[i].time>>,
                          r.intervals[i].timestamp) : i \in 1..Len(r.intervals)}
    ELSE IF r.op = "api" /\ r.msg = "historical"
    THEN {KeyAndTimestamp(<<r.query.date, NormalizeTime(r.query.time)>>, r.timestamp)}
    ELSE IF r.op = "api" /\ r.msg = "current" /\ SnapshotKeys(st) # {}
    THEN {KeyAndTimestamp(LatestKey(st), r.timestamp)}
    ELSE {}

\* C24: the timestamp of a snapshot is a function of its storage key alone:
\* whichever of readLatest, readExact, readAllForDate and readRecent answers
\* a request, and whatever the current time of the request, an answer
\* reports for a key the timestamp the answer before it reported for that
\* key.
C24_TimestampIsFunctionOfKey ==
    [][\A a \in Reported(resp, store), b \in Reported(resp', store') :
           a.key = b.key => a.timestamp = b.timestamp]_vars

\* readLatest has answered, a quarter of an hour after the start, for a
\* store of two snapshots of the date of the change back to standard time
C24_Witness ==
    /\ ticks = 1
    /\ resp.op = "api" /\ resp.status = 200 /\ resp.msg = "current"
    /\ DateFolders(store) = {DateStr(2025, 11, 2)}
    /\ Cardinality(SnapshotKeys(store)) = 2
    /\ resp.timestamp = KeyTimestamp(DateStr(2025, 11, 2), TimeStr(23, 45))

\* The instant of the request a "current" answer was computed at
\* (cacheAge = now - timestamp)
AnsweredAt(r) == r.cacheAge[1] + r.timestamp

IsCurrent(r) == r.op = "api" /\ r.status = 200 /\ r.msg = "current"

\* The least multiple of the interval greater than minute mi
MultipleAfter(mi) == (mi \div UpdateIntervalMinutes + 1) * UpdateIntervalMinutes

\* The New York civil time of instant t with its minute set to mi, second 0
CivilAtMinute(t, mi) == [NycCivil(t) EXCEPT !.mi = mi, !.s = 0]

OffBoundary(t) == NycCivil(t).mi % UpdateIntervalMinutes # 0

\* C25: nextBoundary rounds the civil minute up to the next multiple of the
\* interval: for a request at a civil time whose minute is not a multiple of
\* the interval and whose next multiple is below 60 (14:07, interval 15),
\* nextUpdate is that multiple of the same civil hour of the same date
\* (14:15).
C25_RoundsUpWithinHour ==
    (IsCurrent(resp) /\ OffBoundary(AnsweredAt(resp))
        /\ MultipleAfter(NycCivil(AnsweredAt(resp)).mi) < 60)
    => NycCivil(resp.nextUpdate[1].timestamp)
           = CivilAtMinute(AnsweredAt(resp), MultipleAfter(NycCivil(AnsweredAt(resp)).mi))

\* The request came exactly on a boundary: second 0 of a minute that is a
\* multiple of the interval
OnBoundary(t) == NycCivil(t).mi % UpdateIntervalMinutes = 0 /\ NycCivil(t).s = 0

\* C26: a request exactly on an aligned boundary (14:15:00, interval 15) is
\* told a strictly later boundary (14:30), so asking again at a boundary
\* returned before yields a boundary after it.
C26_StrictlyLaterOnBoundary ==
    (IsCurrent(resp) /\ OnBoundary(AnsweredAt(resp)))
    => resp.nextUpdate[1].timestamp > AnsweredAt(resp)

\* The first instant of the civil hour after the hour of instant t
NextHourStart(t) == t - (NycCivil(t).mi * 60 + NycCivil(t).s) + 3600

\* C27: when the next multiple of the interval reaches or exceeds 60, the
\* boundary is minute 0 of the next civil hour, which after hour 23 is 00:00
\* of the following civil date, for interval lengths that divide 60 and for
\* ones that do not.
C27_RollsOverToNextHour ==
    (IsCurrent(resp) /\ OffBoundary(AnsweredAt(resp))
        /\ MultipleAfter(NycCivil(AnsweredAt(resp)).mi) >= 60)
    => NycCivil(resp.nextUpdate[1].timestamp) = NycCivil(NextHourStart(AnsweredAt(resp)))

QueryOps == {"api", "recent", "available-dates"}

\* The answer of the query route that r answers, for the parameters r
\* answers, over store st at instant t: a function of the store, the
\* instant and the request alone
QueryAnswer(r, st, t) ==
    CASE r.op = "recent"          -> RecentResponse(st)
      [] r.op = "available-dates" -> AvailableDatesResponse(st)
      [] r.op = "api"             ->
             [ApiResponseAt(st, r.query.date, r.query.time, t) EXCEPT !.query = r.query]

\* C28: queries never consult or block on the Running flag.  The answer of
\* a query is the one its parameters have over the store at that instant,
\* whether updateInProgress is true or false and whether or not a run is
\* suspended at an await, and a query changes neither the flag nor the
\* runs.
C28_QueriesIgnoreRunning ==
    [][(resp' # resp /\ resp'.op \in QueryOps)
           => /\ resp' = QueryAnswer(resp', store, now)
              /\ UNCHANGED <<updateInProgress, runs, store>>]_vars

\* GET /api has answered 200 with the snapshot of an earlier run while the
\* next run is suspended at an await
C28_Witness ==
    /\ updateInProgress
    /\ InFlight = 1
    /\ resp.op = "api" /\ resp.status = 200

\* A step in which the finally block of a run has run
RunCompletes == RunEnds /\ resp'.op = "run"

RestartStep == resp'.op = "restart" /\ runs' = <<>>

\* C29: there is no timeout and no cancellation.  While the pipeline call a
\* run awaits has not completed, updateInProgress stays true however much
\* time passes and however many triggers arrive, and every trigger in that
\* time is answered 429 and starts nothing; the flag falls only when a run's
\* pipeline call completes (its finally block) or the process is restarted.
C29_NoTimeout ==
    [][/\ (updateInProgress /\ ~updateInProgress') => (RunCompletes \/ RestartStep)
       /\ (updateInProgress /\ TriggerStep)
              => /\ resp'.op = "update-cache" /\ resp'.status = 429
                 /\ updateInProgress'
                 /\ runs' = runs]_vars

\* Time has passed, a later trigger has been answered 429, and the run is
\* still at its first await
C29_Witness ==
    /\ ticks >= 1
    /\ updateInProgress
    /\ resp.op = "update-cache" /\ resp.status = 429
    /\ \E id \in DOMAIN runs : runs[id] = PipelineSteps[1]

\* A step that ends a run whose pipeline had returned its colours
PipelineFinished == \E id \in DOMAIN runs : runs[id] = "colors" /\ id \notin DOMAIN runs'

\* The store after the snapshot of answer r has been written whole
WrittenWhole(st, r) ==
    PutFile(MkDir(st, r.query.date), r.query.date, SlotFileOf(r.query.time),
            JsonFile(r.colors))

\* C30: a snapshot write is atomic for the queries of the process.  The
\* store changes only in the step that ends a run whose pipeline has
\* finished, never in a query's step; a write that succeeds takes the store
\* in that one step from what it was to the date directory with the whole
\* file in it, so no state a query can run in has the directory without the
\* file or the file half written on account of a write still under way; a
\* file that does not parse appears only in the step of a write that failed.
C30_WriteIsOneStep ==
    [][store' # store
          => /\ RunCompletes /\ PipelineFinished
             /\ resp'.msg \in {"saved", "write"}
             /\ resp'.msg = "saved" => store' = WrittenWhole(store, resp')]_vars

\* A second run has written its snapshot into the directory of the first
C30_Witness ==
    /\ resp.op = "run" /\ resp.msg = "saved"
    /\ ~updateInProgress
    /\ nStarted = 2
    /\ \E d \in DateFolders(store) :
           /\ Cardinality(TimeFiles(store, d)) = 2
           /\ \A f \in TimeFiles(store, d) : store[d].files[f].kind = "json"

----------------------------------------------------------------------------
(* C31..C39: the life of a snapshot, the guard, the latest snapshot and the *)
(* next boundary                                                            *)

\* The key holds a snapshot that parses
ReadableAt(st, k) == k \in SnapshotKeys(st) /\ FileAt(st, k).kind = "json"

\* The key holds in st2 a readable snapshot that st1 did not hold
NewSnapshotAt(st1, st2, k) ==
    /\ ReadableAt(st2, k)
    /\ ~(ReadableAt(st1, k) /\ FileAt(st1, k) = FileAt(st2, k))

\* C31: snapshots are created only by a successful update run and never
\* deleted.  No step removes an entry of data/ or a key of the store; a step
\* that answers a query (latest, exact, by date, recent, available dates)
\* leaves the store as it was; and a readable snapshot appears or changes at
\* a key only in the step in which a run saves at that key.
C31_StoreNeverShrinks ==
    [][/\ DOMAIN store \subseteq DOMAIN store'
       /\ SnapshotKeys(store) \subseteq SnapshotKeys(store')
       /\ (resp'.op \in QueryOps /\ resp' # resp) => store' = store
       /\ \A k \in SnapshotKeys(store') :
              NewSnapshotAt(store, store', k)
                  => /\ SavedStep
                     /\ <<resp'.query.date, SlotFileOf(resp'.query.time)>> = k]_vars

\* A query has been answered over a store of two snapshots, and both
\* snapshots are still there
C31_Witness ==
    /\ resp.op \in QueryOps
    /\ resp.status = 200
    /\ nStarted = 2
    /\ Cardinality({k \in SnapshotKeys(store) : ReadableAt(store, k)}) = 2

\* The storage key of the New York civil date and minute of instant t
CivilKey(c) == [date |-> DateStr(c.y, c.m, c.d), time |-> TimeStr(c.h, c.mi)]

\* The entries of data/ and the files in them, as a set of paths
Leaves(st) ==
    UNION {{<<d, f>> : f \in DOMAIN st[d].files} : d \in DOMAIN st}

\* C32: a run that succeeds writes exactly one leaf file, and the key of
\* that file is the New York civil date and minute of the instant at which
\* the run takes "now", after the pipeline has returned its colours (the
\* instant of the step that saves, not that of the trigger).
C32_KeyIsCivilMinuteOfSave ==
    [][SavedStep
          => /\ resp'.query = CivilKey(NycCivil(now))
             /\ Leaves(store') \ Leaves(store)
                    \subseteq {<<resp'.query.date, SlotFileOf(resp'.query.time)>>}
             /\ \A p \in Leaves(store) :
                    p # <<resp'.query.date, SlotFileOf(resp'.query.time)>>
                        => p \in Leaves(store') /\ FileAt(store', p) = FileAt(store, p)
             /\ ReadableAt(store', <<resp'.query.date, SlotFileOf(resp'.query.time)>>)]_vars

\* The step's call of updateCacheFiles moved the guard from false to true
\* and began a run at the first await
GuardTaken ==
    /\ ~updateInProgress
    /\ updateInProgress'
    /\ nStarted' = nStarted + 1
    /\ runs' = With(runs, nStarted', PipelineSteps[1])

\* C33: a GET /update-cache request is answered 200 "processing" exactly
\* when its own call of updateCacheFiles moved the guard from false to true:
\* the check of the handler and the check-and-set of the function run in
\* one turn, so no request is answered 200 while its call is skipped as
\* already in progress, whoever else calls updateCacheFiles.
C33_AcceptedIsStarted ==
    [][(TriggerStep /\ resp'.op = "update-cache")
          => /\ (resp'.status = 200 /\ resp'.msg = "processing") <=> GuardTaken
             /\ resp'.status \in {200, 429}
             /\ n200' - n200 = nStarted' - nStarted]_vars

\* A request was answered 200 and started the second run, the first having
\* been started by a direct call
C33_Witness ==
    /\ resp.op = "update-cache"
    /\ resp.status = 200
    /\ nReq = 2
    /\ nStarted = 2
    /\ n200 = 1
    /\ InFlight = 1

\* C34: liveness of the guard.  When every external pipeline call resolves or
\* rejects in the end, every state with updateInProgress = true is followed
\* by a state with updateInProgress = false and no run in flight, the state
\* in which a retried trigger is answered 200.
C34_GuardEventuallyReleased ==
    updateInProgress ~> (~updateInProgress /\ InFlight = 0)

\* A trigger was answered 429 during the first run, and that run has since
\* saved its snapshot and released the guard
C34_Witness ==
    /\ ~updateInProgress
    /\ nReq = 2
    /\ n200 = 1
    /\ ticks = 1
    /\ resp.op = "run" /\ resp.msg = "saved"

\* Every key of the store holds a snapshot that parses: the store is the
\* work of runs that succeeded
AllReadable(st) == \A k \in SnapshotKeys(st) : ReadableAt(st, k)

\* C35: after successful update runs at increasing instants readLatest
\* returns the snapshot of the last run, also when the runs fall in the
\* repeated civil hour of the change back to standard time or on both sides
\* of civil midnight: in the step in which a run saves, over a store written
\* by successful runs only, readLatest answers with the colours and the key
\* of that run.
C35_LatestIsLastSaved ==
    [][(SavedStep /\ AllReadable(store'))
          => getLatestColorData(store')
                 = Snapshot(resp'.colors,
                            KeyTimestamp(resp'.query.date, resp'.query.time))]_vars

\* C36: the nextUpdate boundary GET /api reports is never earlier than the
\* "now" it was computed from, also when the minute of now is a multiple of
\* the interval and its seconds are above zero; timeRemaining is zero only
\* when now is exactly the boundary.
C36_BoundaryNotBeforeNow ==
    IsCurrent(resp)
        => /\ resp.nextUpdate[1].timestamp >= AnsweredAt(resp)
           /\ resp.nextUpdate[1].timeRemaining = 0
                  => resp.nextUpdate[1].timestamp = AnsweredAt(resp)

\* C37: the nextUpdate boundary is at most one interval ahead of the
\* instant of the request, also on the date of a daylight-saving change and
\* when the boundary is on the next civil day.
C37_BoundaryWithinOneInterval ==
    IsCurrent(resp)
        => resp.nextUpdate[1].timestamp - AnsweredAt(resp) <= UpdateIntervalMinutes * 60

NoDataMessages == {"No data available for date", "No data available for date at time"}

\* C38: in readExact the validation of the formats comes before every look
\* at the store.  Whatever the store holds, a malformed date gets 'Invalid
\* date format', also when the time is malformed too; a well-formed date
\* with a malformed time gets 'Invalid time format'; and a 'No data
\* available' outcome is given to well-formed dates and times only.
C38_ValidationBeforeLookup ==
    \A q \in ProbeQueries :
        BothPresent(q) =>
            /\ ~IsDateName(q.date)
                   => getColorDataForDateTime(store, q.date, q.time)
                          = Thrown("Invalid date format")
            /\ (IsDateName(q.date) /\ ~IsTimeParam(q.time))
                   => getColorDataForDateTime(store, q.date, q.time)
                          = Thrown("Invalid time format")
            /\ getColorDataForDateTime(store, q.date, q.time).msg \in NoDataMessages
                   => IsDateName(q.date) /\ IsTimeParam(q.time)

\* A request with a malformed date and a malformed time was answered
\* 'Invalid date format' over a store that holds snapshots
C38_Witness ==
    /\ resp.op = "api"
    /\ resp.query = [date |-> BadDate, time |-> BadTime]
    /\ resp.status = 400
    /\ resp.msg = "Invalid date format"
    /\ resp.reads = <<"getColorDataForDateTime">>
    /\ SnapshotKeys(store) # {}


\* The date directory d holds at least one time-slot file that parses
Served(st, d) ==
    \E f \in TimeFiles(st, d) : st[d].files[f].kind = "json"

\* readAllForDate of d ends in the outcome kept for a date directory
\* without time-slot files
NoFilesOutcome(st, d) ==
    getAllColorDataForDate(st, d).msg = "No color data files found for date"

\* A step in which a run's write of its file at date directory d failed
FailedWriteAt(d) ==
    RunCompletes /\ resp'.msg = "write" /\ resp'.query.date = d

\* C39: every date directory has its snapshot.  From the empty store on, a
\* run that saves leaves its date directory with the file it wrote, readable;
\* a date directory without a readable time-slot file comes to be only in a
\* step in which a run's write into that directory failed, and only such a
\* step makes the "no files for this date" outcome of readAllForDate possible.
C39_DirectoryHasItsSnapshot ==
    [][/\ SavedStep =>
              /\ resp'.query.date \in DateFolders(store')
              /\ Served(store', resp'.query.date)
              /\ SlotFileOf(resp'.query.time) \in TimeFiles(store', resp'.query.date)
       /\ \A d \in DateFolders(store') :
              (~Served(store', d) /\ (d \in DateFolders(store) => Served(store, d)))
                  => FailedWriteAt(d)
       /\ \A d \in DOMAIN store' :
              (NoFilesOutcome(store', d)
                   /\ ~(d \in DOMAIN store /\ NoFilesOutcome(store, d)))
                  => FailedWriteAt(d)]_vars

\* Two runs have saved into date directories made by them, and a query of
\* the whole date is answered with its snapshots
C39_Witness ==
    /\ resp.op = "api"
    /\ resp.status = 200
    /\ resp.query.date \in DateFolders(store)
    /\ resp.query.time = <<>>
    /\ nStarted = 2
    /\ DateFolders(store) # {}
    /\ \A d \in DateFolders(store) : Served(store, d)

\* A write has failed and left its date directory without a file
C39_FailedWriteWitness ==
    /\ resp.op = "run"
    /\ resp.msg = "write"
    /\ \E d \in DateFolders(store) : NoFilesOutcome(store, d)

============================================================================
